---- MODULE Spec2Model ----
(***************************************************************************)
(* Model of the NeuroScreen literature pipeline:                           *)
(*   src/services/geminiService.ts  (query builder, PubMed search client,  *)
(*     record fetcher, enrichment batch processor, Markdown parser,        *)
(*     deduplicator and ranker, fetchLiteratureUpdates)                    *)
(*   src/App.tsx                    (handleSearch / handleStop and the     *)
(*     SearchState they write; the second App component, lines 285-887)    *)
(*                                                                         *)
(* A JavaScript string is modelled as a sequence of symbols.  A symbol is  *)
(* a one-character TLA+ string ("#", "-", "\n", "7", "a") or an atom that  *)
(* stands for a run of characters no pattern of the code looks inside      *)
(* (a Chinese field label such as 中文标题 is the atom "ZhongWenBiaoTi",   *)
(* a default such as "No Title" is the atom "No Title").                   *)
(***************************************************************************)
EXTENDS Integers, Sequences, FiniteSets, TLC

-----------------------------------------------------------------------------
(* Strings                                                                 *)

Digits == {"0", "1", "2", "3", "4", "5", "6", "7", "8", "9"}

DigitVal(c) ==
  CASE c = "0" -> 0 [] c = "1" -> 1 [] c = "2" -> 2 [] c = "3" -> 3
    [] c = "4" -> 4 [] c = "5" -> 5 [] c = "6" -> 6 [] c = "7" -> 7
    [] c = "8" -> 8 [] c = "9" -> 9 [] OTHER -> 0

\* \s of a JavaScript regular expression, and the characters String.trim removes
WhiteSpace == {" ", "\n", "\t", "\r"}

\* the characters "." of a JavaScript regular expression does not match
LineTerminators == {"\n", "\r"}

UpperLetters ==
  {"A", "B", "C", "D", "E", "F", "G", "H", "I", "J", "K", "L", "M",
   "N", "O", "P", "Q", "R", "S", "T", "U", "V", "W", "X", "Y", "Z"}

LowerLetters ==
  {"a", "b", "c", "d", "e", "f", "g", "h", "i", "j", "k", "l", "m",
   "n", "o", "p", "q", "r", "s", "t", "u", "v", "w", "x", "y", "z"}

UpperOf ==
  [c \in LowerLetters |->
     CASE c = "a" -> "A" [] c = "b" -> "B" [] c = "c" -> "C" [] c = "d" -> "D"
       [] c = "e" -> "E" [] c = "f" -> "F" [] c = "g" -> "G" [] c = "h" -> "H"
       [] c = "i" -> "I" [] c = "j" -> "J" [] c = "k" -> "K" [] c = "l" -> "L"
       [] c = "m" -> "M" [] c = "n" -> "N" [] c = "o" -> "O" [] c = "p" -> "P"
       [] c = "q" -> "Q" [] c = "r" -> "R" [] c = "s" -> "S" [] c = "t" -> "T"
       [] c = "u" -> "U" [] c = "v" -> "V" [] c = "w" -> "W" [] c = "x" -> "X"
       [] c = "y" -> "Y" [] OTHER -> "Z"]

LowerOf ==
  [c \in UpperLetters |-> CHOOSE d \in LowerLetters : UpperOf[d] = c]

\* String.prototype.toLowerCase and toUpperCase on one symbol: only the
\* letters A-Z and a-z have another case
toLowerCaseChar(c) == IF c \in UpperLetters THEN LowerOf[c] ELSE c

toUpperCaseChar(c) == IF c \in LowerLetters THEN UpperOf[c] ELSE c

toLowerCase(s) == SubSeq([i \in 1..Len(s) |-> toLowerCaseChar(s[i])], 1, Len(s))

toUpperCase(s) == [i \in 1..Len(s) |-> toUpperCaseChar(s[i])]

\* s.slice(from - 1, to) of JavaScript, as the 1-based closed range from..to
Slice(s, from, to) ==
  IF from > to THEN << >> ELSE SubSeq(s, from, to)

\* pat occurs in s at position p
StartsAt(s, p, pat) ==
  /\ p >= 1
  /\ p + Len(pat) - 1 <= Len(s)
  /\ \A i \in 1..Len(pat) : s[p + i - 1] = pat[i]

\* String.prototype.includes
Includes(s, pat) == \E p \in 1..(Len(s) + 1) : StartsAt(s, p, pat)

\* the least position >= from where pat occurs in s, 0 when there is none
IndexOfFrom(s, pat, from) ==
  LET hits == {p \in from..(Len(s) + 1) : StartsAt(s, p, pat)}
  IN  IF hits = {} THEN 0 ELSE CHOOSE p \in hits : \A q \in hits : p <= q

\* String.prototype.trim
Trim(s) ==
  LET keep == {i \in 1..Len(s) : s[i] \notin WhiteSpace}
  IN  IF keep = {} THEN << >>
      ELSE LET lo == CHOOSE i \in keep : \A j \in keep : i <= j
               hi == CHOOSE i \in keep : \A j \in (i + 1)..Len(s) : s[j] \in WhiteSpace
           IN  Slice(s, lo, hi)

\* the end of the longest run of symbols of class cls that starts at p
\* (p - 1 when s[p] is not in cls)
RunEnd(s, p, cls) ==
  (CHOOSE q \in p..(Len(s) + 1) :
     /\ q = Len(s) + 1 \/ s[q] \notin cls
     /\ \A r \in p..(q - 1) : s[r] \in cls) - 1

\* the end of the longest run of symbols outside cls that starts at p
RunEndNot(s, p, cls) ==
  (CHOOSE q \in p..(Len(s) + 1) :
     /\ q = Len(s) + 1 \/ s[q] \in cls
     /\ \A r \in p..(q - 1) : s[r] \notin cls) - 1

Delimiter == <<"-", "-", "-">>

\* String.prototype.split('---'): the pieces between successive leftmost,
\* non-overlapping occurrences of the delimiter
RECURSIVE Split(_)
Split(text) ==
  LET p == IndexOfFrom(text, Delimiter, 1)
  IN  IF p = 0 THEN <<text>>
      ELSE <<Slice(text, 1, p - 1)>> \o Split(Slice(text, p + 3, Len(text)))

SelectNonEmpty(ss) == SelectSeq(ss, LAMBDA s : Len(s) > 0)

\* text.split('---').map(s => s.trim()).filter(s => s.length > 0)
Sections(text) ==
  LET parts == Split(text)
  IN  SelectNonEmpty([i \in 1..Len(parts) |-> Trim(parts[i])])

-----------------------------------------------------------------------------
(* Markdown record parser, deduplicator and ranker                         *)

NoMatch == [found |-> FALSE, v |-> << >>]

Match(v) == [found |-> TRUE, v |-> v]

\* match ? ... : default, and (x || default) for a string x
OrDefault(m, d) == IF m.found /\ m.v # << >> THEN m.v ELSE d

\* where the group (.+) of /###\s*(.+)/ starts when "###" is at p: \s* is
\* greedy and gives whitespace back until a character "." matches follows;
\* 0 when the pattern does not match at p
HeadingGroupStart(s, p) ==
  LET q    == p + 3
      w    == RunEnd(s, q, WhiteSpace)
      opts == {g \in q..(w + 1) : g <= Len(s) /\ s[g] \notin LineTerminators}
  IN  IF opts = {} THEN 0 ELSE CHOOSE g \in opts : \A h \in opts : h <= g

\* a match that needs the end of the heading line, /###\s*(.+)\n/
HeadingMatchWholeLine(section) ==
  LET hits == {p \in 1..Len(section) :
                 /\ StartsAt(section, p, <<"#", "#", "#">>)
                 /\ HeadingGroupStart(section, p) # 0
                 /\ RunEndNot(section, HeadingGroupStart(section, p), LineTerminators) < Len(section)}
  IN  IF hits = {} THEN NoMatch
      ELSE LET p == CHOOSE h \in hits : \A k \in hits : h <= k
               g == HeadingGroupStart(section, p)
           IN  Match(Slice(section, g, RunEndNot(section, g, LineTerminators)))

\* section.match(/###\s*(.+)/): the group of the leftmost match
HeadingMatch(section) ==
  LET hits == {p \in 1..Len(section) :
                 /\ StartsAt(section, p, <<"#", "#", "#">>)
                 /\ HeadingGroupStart(section, p) # 0}
  IN  IF hits = {} THEN NoMatch
      ELSE LET p == CHOOSE h \in hits : \A k \in hits : h <= k
               g == HeadingGroupStart(section, p)
           IN  Match(Slice(section, g, RunEndNot(section, g, LineTerminators)))

\* a lookahead without the alternative \n\*\*, (?=\n---|$)
FieldEndsAtSection(text, e) ==
  \/ e = Len(text) + 1
  \/ StartsAt(text, e, <<"\n", "-", "-", "-">>)

\* the lookahead (?=\n\*\*|\n---|$) holds at position e
FieldEndsAt(text, e) ==
  \/ e = Len(text) + 1
  \/ StartsAt(text, e, <<"\n", "*", "*">>)
  \/ StartsAt(text, e, <<"\n", "-", "-", "-">>)

\* extractField: /\*\*key\*\*:\s*([\s\S]*?)(?=\n\*\*|\n---|$)/i, the trimmed
\* group of the leftmost match, or null (flag i: both sides in lower case)
extractField(text, key) ==
  LET pat  == <<"*", "*">> \o key \o <<"*", "*", ":">>
      low  == toLowerCase(text)
      lpat == toLowerCase(pat)
      hits == {p \in 1..Len(text) : StartsAt(low, p, lpat)}
  IN  IF hits = {} THEN NoMatch
      ELSE LET p     == CHOOSE h \in hits : \A k \in hits : h <= k
               start == RunEnd(text, p + Len(pat), WhiteSpace) + 1
               e     == CHOOSE x \in start..(Len(text) + 1) :
                          /\ FieldEndsAt(text, x)
                          /\ \A y \in start..(x - 1) : ~FieldEndsAt(text, y)
           IN  Match(Trim(Slice(text, start, e - 1)))

\* the field labels of the Markdown grammar (geminiService.ts 225-241)
KeyTitleCn      == <<"ZhongWenBiaoTi">>               \* 中文标题
KeyFirstAuthor  == <<"DiYiZuoZhe">>                   \* 第一作者
KeyFirstInst    == <<"DiYiDanWei">>                   \* 第一单位
KeyCorrAuthor   == <<"TongXunZuoZhe">>                \* 通讯作者
KeyJournal      == <<"QiKan">>                        \* 期刊
KeyPublishDate  == <<"FaBiaoRiQi">>                   \* 发表日期
KeyPmidDoi      == <<"P", "M", "I", "D", "/", "D", "O", "I">>
KeyImpactFactor == <<"YingXiangYinZi">>               \* 影响因子
KeyCasQuartile  == <<"ZhongKeYuanFenQu">>             \* 中科院分区
KeyDiseaseType  == <<"JiBingLeiXing">>                \* 疾病类型
KeyResearchType == <<"YanJiuLeiXing">>                \* 研究类型
KeySampleSize   == <<"YangBenLiang">>                 \* 样本量
KeyQuestion     == <<"YanJiuWenTi">>                  \* 研究问题
KeyConclusions  == <<"JieLunYaoDian">>                \* 结论要点
KeyAbstract     == <<"ZhaiYao">>                      \* 摘要
KeyEndpoints    == <<"LinChuangZhongDianXiangQing">>  \* 临床终点详情
KeyUrl          == <<"LianJie">>                      \* 链接

StrNA         == <<"N", "/", "A">>
StrUnknown    == <<"U", "n", "k", "n", "o", "w", "n">>
StrGeneral    == <<"G", "e", "n", "e", "r", "a", "l">>
StrLiterature == <<"L", "i", "t", "e", "r", "a", "t", "u", "r", "e">>

\* the numeric value of a run of decimal digits
RECURSIVE DigitsToNat(_)
DigitsToNat(ds) ==
  IF ds = << >> THEN 0
  ELSE 10 * DigitsToNat(Slice(ds, 1, Len(ds) - 1)) + DigitVal(ds[Len(ds)])

\* a fraction's digits without its trailing zeros
RECURSIVE StripZeros(_)
StripZeros(ds) ==
  IF ds # << >> /\ ds[Len(ds)] = "0" THEN StripZeros(Slice(ds, 1, Len(ds) - 1))
  ELSE ds

\* a decimal number: sign, integer part, fraction digits
Num(sign, ip, fr) == [sign |-> sign, ip |-> ip, fr |-> fr]

\* parseFloat of the match of /(\d+(\.\d+)?)/
ParseFloatAt(s, p) ==
  LET e1 == RunEnd(s, p, Digits)
      ip == DigitsToNat(Slice(s, p, e1))
      e2 == IF e1 + 2 <= Len(s) /\ s[e1 + 1] = "." /\ s[e1 + 2] \in Digits
              THEN RunEnd(s, e1 + 2, Digits) ELSE e1
      fr == StripZeros(Slice(s, e1 + 2, e2))
  IN  Num(IF ip = 0 /\ fr = << >> THEN 0 ELSE 1, ip, fr)

\* parseImpactFactor: -1 for an absent value, 'N/A' or 'Unknown'; the first
\* decimal number of the text; 0 when the text holds no digit
parseImpactFactor(ifStr) ==
  IF ifStr = << >> \/ ifStr = StrNA \/ ifStr = StrUnknown THEN Num(-1, 1, << >>)
  ELSE LET hits == {p \in 1..Len(ifStr) : ifStr[p] \in Digits}
       IN  IF hits = {} THEN Num(0, 0, << >>)
           ELSE ParseFloatAt(ifStr, CHOOSE h \in hits : \A k \in hits : h <= k)

\* the sign of a - b for two fractions given by their digits
RECURSIVE FracCompare(_, _)
FracCompare(a, b) ==
  IF a = << >> /\ b = << >> THEN 0
  ELSE LET x == IF a = << >> THEN 0 ELSE DigitVal(a[1])
           y == IF b = << >> THEN 0 ELSE DigitVal(b[1])
       IN  IF x < y THEN -1
           ELSE IF x > y THEN 1
           ELSE FracCompare(IF a = << >> THEN a ELSE Tail(a),
                            IF b = << >> THEN b ELSE Tail(b))

\* the sign of a - b for two numbers that are not negative
NumCompare(a, b) ==
  IF a.ip < b.ip THEN -1
  ELSE IF a.ip > b.ip THEN 1
  ELSE FracCompare(a.fr, b.fr)

\* getDiseaseRank: rank 1..10 of the disease-type text, 99 when unrecognized
getDiseaseRank(raw) ==
  LET r == toUpperCase(Trim(raw))
  IN  IF \/ Includes(r, <<"A","M","Y","O","T","R","O","P","H","I","C">>)
         \/ Includes(r, <<"A","L","S">>) THEN 1
      ELSE IF \/ Includes(r, <<"M","O","T","O","R"," ","N","E","U","R","O","N">>)
              \/ Includes(r, <<"M","N","D">>) THEN 2
      ELSE IF Includes(r, <<"A","L","Z","H","E","I","M","E","R">>)
              \/ r = <<"A","D">> THEN 3
      ELSE IF Includes(r, <<"P","A","R","K","I","N","S","O","N">>)
              \/ r = <<"P","D">> THEN 4
      ELSE IF Includes(r, <<"F","R","O","N","T","O","T","E","M","P","O","R","A","L">>)
              \/ r = <<"F","T","D">> THEN 5
      ELSE IF \/ Includes(r, <<"G","E","N","E","R","A","L">>)
              \/ Includes(r, <<"N","E","U","R","O","D","E","G","E","N","E","R","A","T","I","V","E">>)
              \/ Includes(r, <<"A","L","L"," ","T","Y","P","E","S">>) THEN 6
      ELSE IF Includes(r, <<"M","U","L","T","I","P","L","E"," ","S","Y","S","T","E","M">>)
              \/ r = <<"M","S","A">> THEN 7
      ELSE IF Includes(r, <<"H","U","N","T","I","N","G","T","O","N">>)
              \/ r = <<"H","D">> THEN 8
      ELSE IF Includes(r, <<"P","R","O","G","R","E","S","S","I","V","E"," ","S","U","P","R","A">>)
              \/ r = <<"P","S","P">> THEN 9
      ELSE IF Includes(r, <<"C","O","R","T","I","C","O","B","A","S","A","L">>)
              \/ r = <<"C","B","D">> THEN 10
      ELSE 99

\* getCategoryScore: 1 for a clinical-trial or registry record, else 0
getCategoryScore(paper) ==
  LET type == toLowerCase(paper.researchType)
      url  == toLowerCase(paper.url)
  IN  IF \/ Includes(url, <<"c","l","i","n","i","c","a","l","t","r","i","a","l","s",".","g","o","v">>)
         \/ Includes(type, <<"c","l","i","n","i","c","a","l"," ","t","r","i","a","l">>)
         \/ Includes(type, <<"r","e","g","i","s","t","e","r">>)
      THEN 1 ELSE 0

\* the values Date.now() and Math.random() return for the section at 0-based
\* index i: stamps lists them by index, its last entry standing for the rest
StampAt(stamps, i) ==
  IF i + 1 <= Len(stamps) THEN stamps[i + 1] ELSE stamps[Len(stamps)]

\* the decimal digits of a natural number
RECURSIVE NatToDigits(_)
NatToDigits(n) ==
  LET d == CASE n % 10 = 0 -> "0" [] n % 10 = 1 -> "1" [] n % 10 = 2 -> "2"
             [] n % 10 = 3 -> "3" [] n % 10 = 4 -> "4" [] n % 10 = 5 -> "5"
             [] n % 10 = 6 -> "6" [] n % 10 = 7 -> "7" [] n % 10 = 8 -> "8"
             [] OTHER -> "9"
  IN  IF n < 10 THEN <<d>> ELSE NatToDigits(n \div 10) \o <<d>>

\* an identifier without the section index, `paper-${Date.now()}-${random}`
PaperIdUnindexed(index, stamp) ==
  <<"p", "a", "p", "e", "r", "-">> \o NatToDigits(stamp.now) \o <<"-">> \o NatToDigits(stamp.rnd)

\* `paper-${index}-${Date.now()}-${Math.random().toString(36).substr(2, 9)}`,
\* the random suffix written as the digits of stamp.rnd
PaperId(index, stamp) ==
  <<"p", "a", "p", "e", "r", "-">> \o NatToDigits(index) \o <<"-">>
  \o NatToDigits(stamp.now) \o <<"-">> \o NatToDigits(stamp.rnd)

\* the record pushed for a section whose heading matched (lines 222-243)
MakePaper(section, index, stamp, title) ==
  [ id                  |-> PaperId(index, stamp),
    titleEn             |-> Trim(title),
    titleCn             |-> OrDefault(extractField(section, KeyTitleCn), <<"ZanWuZhongWenBiaoTi">>),
    firstAuthor         |-> OrDefault(extractField(section, KeyFirstAuthor), StrUnknown),
    firstInstitution    |-> OrDefault(extractField(section, KeyFirstInst), <<"Unknown Institution">>),
    correspondingAuthor |-> OrDefault(extractField(section, KeyCorrAuthor), StrUnknown),
    journal             |-> OrDefault(extractField(section, KeyJournal), <<"Unknown Journal">>),
    publishDate         |-> OrDefault(extractField(section, KeyPublishDate), <<"Unknown Date">>),
    pmidDoi             |-> OrDefault(extractField(section, KeyPmidDoi), StrNA),
    impactFactor        |-> OrDefault(extractField(section, KeyImpactFactor), StrNA),
    casQuartile         |-> OrDefault(extractField(section, KeyCasQuartile), << >>),
    diseaseType         |-> OrDefault(extractField(section, KeyDiseaseType), StrGeneral),
    researchType        |-> OrDefault(extractField(section, KeyResearchType), StrLiterature),
    sampleSize          |-> OrDefault(extractField(section, KeySampleSize), StrNA),
    clinicalQuestion    |-> OrDefault(extractField(section, KeyQuestion), <<"Not specified">>),
    keyConclusions      |-> OrDefault(extractField(section, KeyConclusions), <<"No conclusion">>),
    abstract            |-> OrDefault(extractField(section, KeyAbstract), <<"ZanWuZhaiYao">>),
    endpointsDetails    |-> OrDefault(extractField(section, KeyEndpoints), StrNA),
    url                 |-> OrDefault(extractField(section, KeyUrl), << >>),
    rawText             |-> section ]

\* sections.forEach((section, index) => ...): the papers of the sections from
\* position i on (index is i - 1, the position in the filtered array)
RECURSIVE RawPapersFrom(_, _, _)
RawPapersFrom(sections, i, stamps) ==
  IF i > Len(sections) THEN << >>
  ELSE LET m == HeadingMatch(sections[i])
       IN  (IF m.found THEN <<MakePaper(sections[i], i - 1, StampAt(stamps, i - 1), m.v)>>
            ELSE << >>)
           \o RawPapersFrom(sections, i + 1, stamps)

\* paper.pmidDoi.match(/(\d{6,})/): the first run of six or more digits
PmidOf(pmidDoi) ==
  LET hits == {p \in 1..Len(pmidDoi) :
                 /\ pmidDoi[p] \in Digits
                 /\ RunEnd(pmidDoi, p, Digits) - p + 1 >= 6}
  IN  IF hits = {} THEN NoMatch
      ELSE LET p == CHOOSE h \in hits : \A k \in hits : h <= k
           IN  Match(Slice(pmidDoi, p, RunEnd(pmidDoi, p, Digits)))

\* titleEn.toLowerCase().replace(/[^a-z0-9]/g, '').slice(0, 50)
NormalizedTitle(titleEn) ==
  LET kept == SelectSeq(toLowerCase(titleEn),
                        LAMBDA c : c \in LowerLetters \/ c \in Digits)
  IN  Slice(kept, 1, IF Len(kept) < 50 THEN Len(kept) ELSE 50)

\* const key = pmid || normalized title (lines 250-251)
DedupKey(paper) ==
  LET pmid == PmidOf(paper.pmidDoi)
  IN  IF pmid.found THEN pmid.v ELSE NormalizedTitle(paper.titleEn)

\* a loop that keeps of the records of one key the last one
RECURSIVE UniqueFromLast(_, _, _)
UniqueFromLast(rawPapers, i, seen) ==
  IF i > Len(rawPapers) THEN << >>
  ELSE IF \E j \in (i + 1)..Len(rawPapers) : DedupKey(rawPapers[j]) = DedupKey(rawPapers[i])
         THEN UniqueFromLast(rawPapers, i + 1, seen)
         ELSE <<rawPapers[i]>> \o UniqueFromLast(rawPapers, i + 1, seen)

\* the loop of lines 249-257 from position i on, seen being seenKeys
RECURSIVE UniqueFrom(_, _, _)
UniqueFrom(rawPapers, i, seen) ==
  IF i > Len(rawPapers) THEN << >>
  ELSE LET key == DedupKey(rawPapers[i])
       IN  IF key \notin seen
             THEN <<rawPapers[i]>> \o UniqueFrom(rawPapers, i + 1, seen \cup {key})
             ELSE UniqueFrom(rawPapers, i + 1, seen)

\* a comparator that puts the lower of two impact factors first
ComparePapersAscending(a, b) ==
  LET rankA == getDiseaseRank(a.diseaseType)
      rankB == getDiseaseRank(b.diseaseType)
      ifA   == parseImpactFactor(a.impactFactor)
      ifB   == parseImpactFactor(b.impactFactor)
      catA  == getCategoryScore(a)
      catB  == getCategoryScore(b)
  IN  IF rankA # rankB THEN (IF rankA < rankB THEN -1 ELSE 1)
      ELSE IF ifA.sign > 0 /\ ifB.sign > 0 /\ NumCompare(ifA, ifB) # 0
             THEN NumCompare(ifA, ifB)
      ELSE IF ifA.sign > 0 /\ ifB.sign <= 0 THEN -1
      ELSE IF ifA.sign <= 0 /\ ifB.sign > 0 THEN 1
      ELSE catA - catB

\* a comparator that reads the impact factors before the disease ranks
ComparePapersImpactFirst(a, b) ==
  LET rankA == getDiseaseRank(a.diseaseType)
      rankB == getDiseaseRank(b.diseaseType)
      ifA   == parseImpactFactor(a.impactFactor)
      ifB   == parseImpactFactor(b.impactFactor)
      catA  == getCategoryScore(a)
      catB  == getCategoryScore(b)
  IN  IF ifA.sign > 0 /\ ifB.sign > 0 /\ NumCompare(ifA, ifB) # 0
             THEN NumCompare(ifB, ifA)
      ELSE IF ifA.sign > 0 /\ ifB.sign <= 0 THEN -1
      ELSE IF ifA.sign <= 0 /\ ifB.sign > 0 THEN 1
      ELSE IF rankA # rankB THEN (IF rankA < rankB THEN -1 ELSE 1)
      ELSE catA - catB

\* a comparator that orders papers it would leave tied by the random
\* component of their identifiers
ComparePapersRandomTies(a, b) ==
  LET rankA == getDiseaseRank(a.diseaseType)
      rankB == getDiseaseRank(b.diseaseType)
      ifA   == parseImpactFactor(a.impactFactor)
      ifB   == parseImpactFactor(b.impactFactor)
      catA  == getCategoryScore(a)
      catB  == getCategoryScore(b)
  IN  IF rankA # rankB THEN (IF rankA < rankB THEN -1 ELSE 1)
      ELSE IF ifA.sign > 0 /\ ifB.sign > 0 /\ NumCompare(ifA, ifB) # 0
             THEN NumCompare(ifB, ifA)
      ELSE IF ifA.sign > 0 /\ ifB.sign <= 0 THEN -1
      ELSE IF ifA.sign <= 0 /\ ifB.sign > 0 THEN 1
      ELSE IF catA # catB THEN catA - catB
      ELSE DigitVal(a.id[Len(a.id)]) - DigitVal(b.id[Len(b.id)])

\* the sign of the comparator of lines 259-273
ComparePapers(a, b) ==
  LET rankA == getDiseaseRank(a.diseaseType)
      rankB == getDiseaseRank(b.diseaseType)
      ifA   == parseImpactFactor(a.impactFactor)
      ifB   == parseImpactFactor(b.impactFactor)
      catA  == getCategoryScore(a)
      catB  == getCategoryScore(b)
  IN  IF rankA # rankB THEN (IF rankA < rankB THEN -1 ELSE 1)
      ELSE IF ifA.sign > 0 /\ ifB.sign > 0 /\ NumCompare(ifA, ifB) # 0
             THEN NumCompare(ifB, ifA)
      ELSE IF ifA.sign > 0 /\ ifB.sign <= 0 THEN -1
      ELSE IF ifA.sign <= 0 /\ ifB.sign > 0 THEN 1
      ELSE catA - catB

\* x put into the sorted sequence s before the elements it ties with
RECURSIVE InsertSortedBeforeTies(_, _)
InsertSortedBeforeTies(s, x) ==
  IF s = << >> THEN <<x>>
  ELSE IF ComparePapers(x, Head(s)) <= 0 THEN <<x>> \o s
  ELSE <<Head(s)>> \o InsertSortedBeforeTies(Tail(s), x)

\* x put into the sorted sequence s after every element it does not precede
RECURSIVE InsertSorted(_, _)
InsertSorted(s, x) ==
  IF s = << >> THEN <<x>>
  ELSE IF ComparePapers(x, Head(s)) < 0 THEN <<x>> \o s
  ELSE <<Head(s)>> \o InsertSorted(Tail(s), x)

\* a sort that leaves the papers as they are
SortPapersSkipped(ps) == ps

\* Array.prototype.sort with the comparator: a stable sort
RECURSIVE SortPapers(_)
SortPapers(ps) ==
  IF ps = << >> THEN << >>
  ELSE InsertSorted(SortPapers(Slice(ps, 1, Len(ps) - 1)), ps[Len(ps)])

\* parsePapersFromMarkdown
parsePapersFromMarkdown(text, stamps) ==
  SortPapers(UniqueFrom(RawPapersFrom(Sections(text), 1, stamps), 1, {}))

-----------------------------------------------------------------------------
(* Query builder                                                           *)

\* the members of enum Timeframe (part_002 42-47), named by their keys
Timeframes == {"DAY_1", "DAY_3", "WEEK_1", "MONTH_1"}

\* a lookup without the default of line 16
getTimeframeDaysNoDefault(tf) ==
  CASE tf = "DAY_1"   -> 1
    [] tf = "DAY_3"   -> 3
    [] tf = "WEEK_1"  -> 7
    [] tf = "MONTH_1" -> 30
    [] OTHER          -> 0

\* getTimeframeDays
getTimeframeDays(tf) ==
  CASE tf = "DAY_1"   -> 1
    [] tf = "DAY_3"   -> 3
    [] tf = "WEEK_1"  -> 7
    [] tf = "MONTH_1" -> 30
    [] OTHER          -> 7

\* enum Topic (part_002 50-62): the numeric prefix, then the terms as one atom
TopicALS == <<"1", ".", " ", "amyotrophic lateral sclerosis OR ALS">>
TopicMND == <<"2", ".", " ", "motor neuron disease">>
TopicALL == <<"1", "1", ".", " ", "all", " ", "(", "BaoHanShangShuSuoYou", ")">>

\* t.replace(/^\d+\.\s*/, ''): drops a leading "<digits>." and the blanks after it
StripPrefix(t) ==
  LET d == RunEnd(t, 1, Digits)
  IN  IF d >= 1 /\ d + 1 <= Len(t) /\ t[d + 1] = "."
        THEN Slice(t, RunEnd(t, d + 2, WhiteSpace) + 1, Len(t))
        ELSE t

\* t.replace(/\s*\(.*?\)$/, ''): drops a parenthesis that ends the text, from
\* the blanks before the leftmost "(" that no line break separates from the end
StripParen(t) ==
  LET opens == {p \in 1..Len(t) :
                  /\ t[p] = "("
                  /\ Len(t) > p
                  /\ t[Len(t)] = ")"
                  /\ \A q \in (p + 1)..(Len(t) - 1) : t[q] \notin LineTerminators}
  IN  IF opens = {} THEN t
      ELSE LET p  == CHOOSE o \in opens : \A k \in opens : o <= k
               ws == {q \in 1..p : \A k \in q..(p - 1) : t[k] \in WhiteSpace}
           IN  Slice(t, 1, (CHOOSE q \in ws : \A k \in ws : q <= k) - 1)

\* getQueryString: the fixed union query for Topic.ALL, else "(" clean(topic) ")"
getQueryString(topic) ==
  IF topic = TopicALL THEN <<"AllDiseasesQuery">>
  ELSE <<"(">> \o StripParen(StripPrefix(topic)) \o <<")">>

-----------------------------------------------------------------------------
(* Citation search client and record fetcher                               *)

CHUNK_SIZE == 50

BATCH_SIZE == 10

\* searchPubMedIDs on the reply to its one request: the identifier list of a
\* successful reply (empty when the reply holds none); every failure is caught
\* a variant without the catch of lines 44-47: the failure reaches the caller
searchPubMedIDsRethrowing(reply) ==
  IF reply.kind = "ok"
    THEN [threw |-> FALSE, ids |-> OrDefault(reply.idlist, << >>)]
    ELSE [threw |-> TRUE, ids |-> << >>]

searchPubMedIDs(reply) ==
  IF reply.kind = "ok"
    THEN [threw |-> FALSE, ids |-> OrDefault(reply.idlist, << >>)]
    ELSE [threw |-> FALSE, ids |-> << >>]

\* the chunks pushed by the loop of lines 66-68, from 0-based offset i on
RECURSIVE ChunksFrom(_, _)
ChunksFrom(ids, i) ==
  IF i < Len(ids)
    THEN <<Slice(ids, i + 1, IF i + CHUNK_SIZE < Len(ids) THEN i + CHUNK_SIZE ELSE Len(ids))>>
         \o ChunksFrom(ids, i + CHUNK_SIZE)
    ELSE << >>

\* a variant that sends every identifier in one request
OneChunkOf(ids) == IF Len(ids) = 0 THEN << >> ELSE <<ids>>

ChunksOf(ids) == ChunksFrom(ids, 0)

\* Array.prototype.join
RECURSIVE Join(_, _)
Join(parts, sep) ==
  IF parts = << >> THEN << >>
  ELSE IF Len(parts) = 1 THEN parts[1]
  ELSE parts[1] \o sep \o Join(Tail(parts), sep)

\* one AbstractText node: "<Label>: <text>" when it has a non-empty label
AbstractPart(node) ==
  IF node.label.found /\ node.label.v # << >>
    THEN node.label.v \o <<":", " ">> \o node.text
    ELSE node.text

\* s.replace(pat, '') for a literal pat: the first occurrence removed
RemoveFirst(s, pat) ==
  LET p == IndexOfFrom(s, pat, 1)
  IN  IF p = 0 THEN s ELSE Slice(s, 1, p - 1) \o Slice(s, p + Len(pat), Len(s))

\* `${year}-${month}-${day}`.replace(/-$/, '').replace(/--/, '')
PubDateOf(node) ==
  LET raw == OrDefault(node.year, << >>) \o <<"-">> \o OrDefault(node.month, << >>)
             \o <<"-">> \o OrDefault(node.day, << >>)
      cut == IF raw[Len(raw)] = "-" THEN Slice(raw, 1, Len(raw) - 1) ELSE raw
  IN  RemoveFirst(cut, <<"-", "-">>)

\* the text of the first ArticleId whose IdType is "doi", else ""
DoiOf(articleIds) ==
  LET hits == {j \in 1..Len(articleIds) : articleIds[j].idType = "doi"}
  IN  IF hits = {} THEN << >>
      ELSE articleIds[CHOOSE j \in hits : \A k \in hits : j <= k].text

\* the first three authors as "<LastName> <ForeName>", joined by ", "
AuthorsOf(authorList) ==
  LET names == [j \in 1..Len(authorList) |->
                  OrDefault(authorList[j].last, << >>) \o <<" ">>
                  \o OrDefault(authorList[j].fore, << >>)]
  IN  Join(Slice(names, 1, IF Len(names) < 3 THEN Len(names) ELSE 3), <<",", " ">>)

\* the record pushed for one PubmedArticle element (lines 96-165)
ArticleToRaw(article) ==
  [ pmid     |-> OrDefault(article.pmid, << >>),
    title    |-> OrDefault(article.title, <<"No Title">>),
    abstract |-> IF Len(article.abstractTexts) > 0
                   THEN Join([j \in 1..Len(article.abstractTexts) |->
                                AbstractPart(article.abstractTexts[j])], <<"\n">>)
                   ELSE <<"No Abstract">>,
    journal  |-> OrDefault(article.journalTitle,
                           OrDefault(article.journalIso, <<"Unknown Journal">>)),
    pubDate  |-> IF article.pubDate.found THEN PubDateOf(article.pubDate.v) ELSE << >>,
    doi      |-> DoiOf(article.articleIds),
    authors  |-> IF article.authorList.found THEN AuthorsOf(article.authorList.v)
                 ELSE << >> ]

\* the records one chunk's reply adds to allData: none when the request fails,
\* the response is not ok or the document has a parsererror element
ChunkRecords(reply) ==
  IF reply.kind = "ok"
    THEN [j \in 1..Len(reply.articles) |-> ArticleToRaw(reply.articles[j])]
    ELSE << >>

-----------------------------------------------------------------------------
(* One call of the service: its frame, and the steps between two awaits    *)

Null == NoMatch

NoResult == [kind |-> "none", value |-> << >>, error |-> << >>]

Counters == [search |-> 0, fetch |-> 0, enrich |-> 0]

\* the locals of one call: fn is the function that was called, pc the await
\* it is suspended at, iss/ret the requests issued and answered so far,
\* fetchReqs/enrichReqs the id lists and batches the requests carried,
\* fetchLog/enrichLog the replies the called function has received
IdleFrame ==
  [ fn |-> "none", pc |-> "idle", days |-> 0, query |-> << >>,
    pmids |-> << >>, sKind |-> "none",
    chunks |-> << >>, ci |-> 0, allData |-> << >>, fetchReqs |-> << >>,
    fetchLog |-> << >>,
    bi |-> 0, text |-> << >>, grounding |-> << >>, enrichReqs |-> << >>,
    enrichLog |-> << >>,
    iss |-> Counters, ret |-> Counters, res |-> NoResult ]

InFlight(r) ==
  (r.iss.search + r.iss.fetch + r.iss.enrich)
  - (r.ret.search + r.ret.fetch + r.ret.enrich)

Finished(r) == r.pc = "done"

\* the call is over: its loop positions and text are gone; what stays is what
\* the caller and the network saw of it (the identifiers found, the records
\* fetched, the requests, the outcome)
Settled(r, res) ==
  [IdleFrame EXCEPT !.fn = r.fn, !.pc = "done", !.days = r.days, !.query = r.query,
                    !.pmids = r.pmids, !.sKind = r.sKind, !.allData = r.allData,
                    !.fetchReqs = r.fetchReqs, !.enrichReqs = r.enrichReqs,
                    !.fetchLog = r.fetchLog, !.enrichLog = r.enrichLog,
                    !.iss = r.iss, !.ret = r.ret, !.res = res]

\* what is left of a call once its caller has moved on
Released(r) == IF Finished(r) THEN [IdleFrame EXCEPT !.pc = "done"] ELSE r

\* return v
Return(r, v) == Settled(r, [kind |-> "value", value |-> v, error |-> << >>])

\* throw new Error(message)
Throw(r, message) ==
  Settled(r, [kind |-> "error", value |-> << >>,
              error |-> [name |-> "Error", message |-> message]])

MsgMissingKey == <<"API Key is missing. Please set process.env.API_KEY.">>
MsgNoPapers   == <<"No papers found in PubMed for this criteria.">>
MsgNoDetails  == <<"Found IDs but failed to fetch details from PubMed.">>

\* the value returned at lines 389 and 396
EmptyResult(message) ==
  [papers |-> << >>, rawResponse |-> message, groundingChunks |-> << >>]

\* a variant that never finds the credential missing
CredentialNeverMissing(key) == FALSE

\* !process.env.API_KEY
MissingCredential(key) == ~key

\* a variant that takes every remaining paper into the batch
BatchAtUnbounded(papers, i) == Slice(papers, i + 1, Len(papers))

\* batch = papers.slice(i, i + BATCH_SIZE)
BatchAt(papers, i) ==
  Slice(papers, i + 1, IF i + BATCH_SIZE < Len(papers) THEN i + BATCH_SIZE ELSE Len(papers))

BatchSeparator == <<"\n", "\n", "-", "-", "-", "\n", "\n">>

\* `\n\n> Error processing papers ${i+1} to ${i+batch.length}\n\n---\n\n`
ErrorMarker(i, len) ==
  <<"\n", "\n", ">", " ", "Error processing papers ">> \o NatToDigits(i + 1)
  \o <<" to ">> \o NatToDigits(i + len) \o BatchSeparator

\* what the prompt of a batch at offset i holds of each paper: its label
\* [Paper i+idx+1] and its data, named here by the PMID (lines 293-302)
PapersInput(batch, i) ==
  [idx \in 1..Len(batch) |-> [label |-> i + idx, pmid |-> batch[idx].pmid]]

\* the request of the batch at offset r.bi is sent (line 343)
IssueBatch(r) ==
  [r EXCEPT !.pc = "enrich",
            !.iss.enrich = @ + 1,
            !.enrichReqs = Append(@, PapersInput(BatchAt(r.allData, r.bi), r.bi))]

\* lines 402-409: parse the accumulated text and return
ParseAndReturn(r, stamps) ==
  Return(r, [papers          |-> parsePapersFromMarkdown(r.text, stamps),
             rawResponse     |-> r.text,
             groundingChunks |-> r.grounding])

\* processPapersInBatches has returned into fetchLiteratureUpdates: the
\* caller holds text and groundingChunks only
EnrichReturned(r) == [r EXCEPT !.bi = 0, !.enrichLog = << >>]

\* the for statement of line 289 at offset i: the next batch, or the end of
\* processPapersInBatches and the rest of fetchLiteratureUpdates
EnrichLoop(r, i, stamps) ==
  IF i < Len(r.allData) THEN IssueBatch([r EXCEPT !.bi = i])
  ELSE IF r.fn = "processPapersInBatches"
    THEN Return(r, [text |-> r.text, groundingChunks |-> r.grounding])
  ELSE ParseAndReturn(EnrichReturned(r), stamps)

\* processPapersInBatches entered (lines 285-289)
StartEnrich(r, stamps) ==
  EnrichLoop([r EXCEPT !.text = << >>, !.grounding = << >>], 0, stamps)

\* a variant whose catch appends nothing
BatchOutcomeSilent(r, reply) ==
  IF reply.kind = "ok"
    THEN [r EXCEPT !.text = @ \o OrDefault(reply.text, << >>) \o BatchSeparator,
                   !.grounding = @ \o OrDefault(reply.chunks, << >>)]
    ELSE r

\* a variant whose catch starts the citation list again
BatchOutcomeResetting(r, reply) ==
  IF reply.kind = "ok"
    THEN [r EXCEPT !.text = @ \o OrDefault(reply.text, << >>) \o BatchSeparator,
                   !.grounding = @ \o OrDefault(reply.chunks, << >>)]
    ELSE [r EXCEPT !.text = @ \o ErrorMarker(r.bi, Len(BatchAt(r.allData, r.bi))),
                   !.grounding = << >>]

\* the try body after the await (lines 351-355) and the catch (358-360)
BatchOutcome(r, reply) ==
  IF reply.kind = "ok"
    THEN [r EXCEPT !.text = @ \o OrDefault(reply.text, << >>) \o BatchSeparator,
                   !.grounding = @ \o OrDefault(reply.chunks, << >>)]
    ELSE [r EXCEPT !.text = @ \o ErrorMarker(r.bi, Len(BatchAt(r.allData, r.bi)))]

\* one enrichment reply arrives: lines 351-361, then the loop goes on
OnBatchReply(r, reply, stamps) ==
  EnrichLoop(BatchOutcome([r EXCEPT !.ret.enrich = @ + 1,
                                    !.enrichLog = Append(@, reply)], reply),
             r.bi + BATCH_SIZE, stamps)

\* fetchPubMedDetails has returned into fetchLiteratureUpdates: of its locals
\* the caller holds rawData only
FetchReturned(r) == [r EXCEPT !.chunks = << >>, !.ci = 0, !.fetchLog = << >>]

\* a variant of lines 395-400 that throws when no record was fetched
AfterFetchThrowing(r, stamps) ==
  IF r.fn = "fetchPubMedDetails" THEN Return(r, r.allData)
  ELSE IF Len(r.allData) = 0 THEN Throw(FetchReturned(r), MsgNoDetails)
  ELSE StartEnrich(FetchReturned(r), stamps)

\* a variant of lines 395-400 without the test of line 395, before an
\* enrichment that sends its first request whatever the number of records
AfterFetchAlwaysEnrich(r, stamps) ==
  IF r.fn = "fetchPubMedDetails" THEN Return(r, r.allData)
  ELSE IssueBatch([FetchReturned(r) EXCEPT !.text = << >>, !.grounding = << >>, !.bi = 0])

\* fetchPubMedDetails returns r.allData: to the caller of a direct call, or
\* into lines 395-400 of fetchLiteratureUpdates
AfterFetch(r, stamps) ==
  IF r.fn = "fetchPubMedDetails" THEN Return(r, r.allData)
  ELSE IF Len(r.allData) = 0 THEN Return(FetchReturned(r), EmptyResult(MsgNoDetails))
  ELSE StartEnrich(FetchReturned(r), stamps)

\* a variant that sends the requests of chunk r.ci and of all later chunks
\* at once, as Promise.all over the chunks would
IssueAllChunks(r) ==
  [r EXCEPT !.pc = "fetch",
            !.iss.fetch = @ + (Len(r.chunks) - r.ci + 1),
            !.fetchReqs = @ \o Slice(r.chunks, r.ci, Len(r.chunks))]

\* the request of chunk r.ci is sent (lines 74-77)
IssueChunk(r) ==
  [r EXCEPT !.pc = "fetch",
            !.iss.fetch = @ + 1,
            !.fetchReqs = Append(@, r.chunks[r.ci])]

\* for (const chunk of chunks) at position ci
FetchLoop(r, ci, stamps) ==
  IF ci <= Len(r.chunks) THEN IssueChunk([r EXCEPT !.ci = ci])
  ELSE AfterFetch(r, stamps)

\* fetchPubMedDetails(ids) entered (lines 62-73)
StartFetch(r, ids, stamps) ==
  IF Len(ids) = 0 THEN AfterFetch([r EXCEPT !.allData = << >>], stamps)
  ELSE FetchLoop([r EXCEPT !.chunks = ChunksOf(ids), !.allData = << >>], 1, stamps)

\* a variant in which a chunk that brings no document ends the loop
OnChunkReplyStopping(r, reply, stamps) ==
  LET q == [r EXCEPT !.ret.fetch = @ + 1,
                     !.fetchLog = Append(@, reply),
                     !.allData = @ \o ChunkRecords(reply)]
  IN  IF reply.kind = "ok" THEN FetchLoop(q, r.ci + 1, stamps)
      ELSE AfterFetch(q, stamps)

\* one detail reply arrives: lines 78-169, then the loop goes on
OnChunkReply(r, reply, stamps) ==
  FetchLoop([r EXCEPT !.ret.fetch = @ + 1,
                      !.fetchLog = Append(@, reply),
                      !.allData = @ \o ChunkRecords(reply)],
            r.ci + 1, stamps)

\* lines 385-393 with what searchPubMedIDs produced: an exception of the
\* awaited call would leave fetchLiteratureUpdates at line 385, a list goes
\* through the test of line 388
AfterSearch(r, out, stamps) ==
  IF out.threw THEN Throw(r, <<"PubMed Search Failed">>)
  ELSE IF Len(out.ids) = 0 THEN Return(r, EmptyResult(MsgNoPapers))
  ELSE StartFetch(r, out.ids, stamps)

\* the search reply arrives (lines 41-47, 385-393)
OnSearchReply(r, reply, stamps) ==
  LET out == searchPubMedIDs(reply)
  IN  AfterSearch([r EXCEPT !.ret.search = @ + 1,
                            !.sKind = reply.kind,
                            !.pmids = out.ids],
                  out, stamps)

\* the search request is sent (line 40)
IssueSearch(r) == [r EXCEPT !.pc = "search", !.iss.search = @ + 1]

\* fetchLiteratureUpdates(topic, timeframe) up to its first await; the third
\* argument App passes (controller.signal) has no parameter to bind to
fetchLiteratureUpdates(key, topic, timeframe) ==
  LET r == [IdleFrame EXCEPT !.fn = "fetchLiteratureUpdates"]
  IN  IF MissingCredential(key) THEN Throw(r, MsgMissingKey)
      ELSE IssueSearch([r EXCEPT !.days = getTimeframeDays(timeframe),
                                 !.query = getQueryString(topic)])

-----------------------------------------------------------------------------
(* The App component: SearchState, the abort controller, the chat session  *)

MaxSearches == 2

MaxArticles == 10

MaxIds == 101

MaxRecords == 21

MaxSegments == 2

\* the most segments a text to rank is made of
MaxRanked == 3

Searches == 1..MaxSearches

VARIABLES
  apiKey,              \* process.env.API_KEY is set
  topic, timeframe,    \* the two selectors (App.tsx 295-296)
  viewMode, isChatOpen,
  state,               \* SearchState (App.tsx 319-327)
  abortControllerRef,  \* the search whose controller the ref holds, 0 for null
  aborted,             \* aborted[s]: controller.signal.aborted of search s
  chatSession,
  frames,              \* frames[s]: the service call of search s
  started              \* the number of handleSearch calls so far

vars ==
  <<apiKey, topic, timeframe, viewMode, isChatOpen, state, abortControllerRef,
    aborted, chatSession, frames, started>>

MsgStopped == <<"Search stopped by user.">>

FailurePrefix == <<"JianSuoShiBai: ">>   \* "检索失败: "

\* createExpertChat: the chat seeded with the first 20 papers
createExpertChat(papers) ==
  LET k == IF Len(papers) < 20 THEN Len(papers) ELSE 20
  IN  Match([context |-> [i \in 1..k |-> papers[i].pmidDoi]])

\* a catch block that shows the message and leaves the loading flag as it is
CatchErrorStillLoading(st, err) ==
  IF err.message = <<"Aborted">> \/ err.name = "AbortError"
    THEN [st EXCEPT !.error = Match(MsgStopped)]
    ELSE [st EXCEPT !.error = Match(FailurePrefix \o err.message)]

\* the catch block of handleSearch (App.tsx 406-420)
CatchError(st, err) ==
  IF err.message = <<"Aborted">> \/ err.name = "AbortError"
    THEN [st EXCEPT !.isLoading = FALSE, !.error = Match(MsgStopped)]
    ELSE [st EXCEPT !.isLoading = FALSE,
                    !.error = Match(FailurePrefix \o err.message)]

\* handleSearch after its await (App.tsx 390-425) for the call of search s
\* that ended with res; app holds state, the ref and the chat session
ResumeHandleSearch(app, s, res, key) ==
  LET ref == IF app.ref = s THEN 0 ELSE app.ref
  IN  IF res.kind = "value"
        THEN LET st == [app.state EXCEPT !.isLoading = FALSE,
                                         !.results = res.value.papers,
                                         !.rawResponse = res.value.rawResponse,
                                         !.groundingChunks = res.value.groundingChunks]
             IN  IF Len(res.value.papers) = 0
                   THEN [state |-> st, ref |-> ref, chat |-> app.chat]
                 ELSE IF MissingCredential(key)
                   THEN [state |-> CatchError(st, [name |-> "Error",
                                                   message |-> <<"API Key is missing.">>]),
                         ref |-> ref, chat |-> app.chat]
                 ELSE [state |-> st, ref |-> ref,
                       chat |-> createExpertChat(res.value.papers)]
        ELSE [state |-> CatchError(app.state, res.error), ref |-> ref,
              chat |-> app.chat]

\* the writes of a step of search s: its frame, and, when the step ended the
\* call, the continuation of handleSearch in the same turn of the event loop
Commit(s, r) ==
  /\ frames' = [frames EXCEPT ![s] = r]
  /\ IF Finished(r) /\ r.fn = "fetchLiteratureUpdates"
       THEN LET app == ResumeHandleSearch(
                         [state |-> state, ref |-> abortControllerRef,
                          chat |-> chatSession], s, r.res, apiKey)
            IN  /\ state' = app.state
                /\ abortControllerRef' = app.ref
                /\ chatSession' = app.chat
       ELSE UNCHANGED <<state, abortControllerRef, chatSession>>

TypeInit ==
  /\ topic = TopicALL
  /\ timeframe = "WEEK_1"
  /\ viewMode = "search"
  /\ isChatOpen = FALSE
  /\ state = [isLoading |-> FALSE, results |-> << >>, rawResponse |-> << >>,
              error |-> Null, groundingChunks |-> << >>]
  /\ abortControllerRef = 0
  /\ aborted = [s \in Searches |-> FALSE]
  /\ chatSession = Null
  /\ started = 0

Init ==
  /\ apiKey \in BOOLEAN
  /\ TypeInit
  /\ frames = [s \in Searches |-> IdleFrame]

\* handleSearch up to its await (App.tsx 375-390)
HandleSearch ==
  /\ started < MaxSearches
  /\ LET s  == started + 1
         r  == fetchLiteratureUpdates(apiKey, topic, timeframe)
         st == [state EXCEPT !.isLoading = TRUE, !.error = Null,
                             !.results = << >>, !.groundingChunks = << >>]
         app == IF Finished(r)
                  THEN ResumeHandleSearch([state |-> st, ref |-> s, chat |-> Null],
                                          s, r.res, apiKey)
                  ELSE [state |-> st, ref |-> s, chat |-> Null]
     IN  /\ started' = s
         /\ aborted' = IF abortControllerRef # 0
                         THEN [aborted EXCEPT ![abortControllerRef] = TRUE]
                         ELSE aborted
         /\ viewMode' = "search"
         /\ isChatOpen' = FALSE
         /\ frames' = [q \in Searches |-> IF q = s THEN r ELSE Released(frames[q])]
         /\ state' = app.state
         /\ abortControllerRef' = app.ref
         /\ chatSession' = app.chat
  /\ UNCHANGED <<apiKey, topic, timeframe>>

\* handleStop (App.tsx 428-433)
HandleStop ==
  /\ abortControllerRef # 0
  /\ aborted' = [aborted EXCEPT ![abortControllerRef] = TRUE]
  /\ abortControllerRef' = 0
  /\ UNCHANGED <<apiKey, topic, timeframe, viewMode, isChatOpen, state,
                 chatSession, frames, started>>

-----------------------------------------------------------------------------
(* The external services: the replies they may give                        *)

\* the identifiers the database lists for search s when it finds n records;
\* an identifier is the number its digits spell (no code looks inside one)
IdsOf(s, n) == [i \in 1..n |-> 100000 * s + i]

IdCounts == {0, 1, CHUNK_SIZE + 1}

Failure(kind) == [kind |-> kind, idlist |-> NoMatch, articles |-> << >>,
                  text |-> NoMatch, chunks |-> NoMatch]

\* esearch: the request fails, the status is not ok, the body is no JSON, the
\* JSON has no idlist, or it lists n identifiers
SearchReplies(s) ==
  {Failure("neterr"), Failure("notok"), Failure("badjson"), Failure("ok")}
  \cup {[Failure("ok") EXCEPT !.idlist = Match(IdsOf(s, n))] : n \in IdCounts}

\* a PubmedArticle element that holds nothing but its PMID and title
ArticleFor(id) ==
  [ pmid |-> Match(NatToDigits(id)), title |-> Match(<<"T">> \o NatToDigits(id)),
    abstractTexts |-> << >>,
    journalTitle |-> NoMatch, journalIso |-> NoMatch, pubDate |-> NoMatch,
    articleIds |-> << >>, authorList |-> NoMatch ]

\* a PubmedArticle element without PMID and without ArticleTitle
MalformedArticle ==
  [ pmid |-> NoMatch, title |-> NoMatch, abstractTexts |-> << >>,
    journalTitle |-> NoMatch, journalIso |-> NoMatch, pubDate |-> NoMatch,
    articleIds |-> << >>, authorList |-> NoMatch ]

WellFormed(article) == article.pmid.found /\ article.title.found

\* efetch for a chunk: a failure, a malformed document, a document without
\* articles, the articles of the chunk's first MaxArticles identifiers, or,
\* of two articles and more, these with a malformed element in the place of
\* the last one
FetchReplies(chunk) ==
  LET k == IF Len(chunk) < MaxArticles THEN Len(chunk) ELSE MaxArticles
  IN  {Failure("neterr"), Failure("notok"), Failure("parsererror"), Failure("ok"),
       [Failure("ok") EXCEPT !.articles = [j \in 1..k |-> ArticleFor(chunk[j])]]}
      \cup {[Failure("ok") EXCEPT
               !.articles = [j \in 1..k |-> IF j < k THEN ArticleFor(chunk[j])
                                            ELSE MalformedArticle]] : n \in {k} \ {1}}

\* one record of the Markdown grammar: heading, PMID/DOI line, delimiter
GrammarRecord(raw) ==
  <<"#", "#", "#", " ">> \o raw.title \o <<"\n", "*", "*">> \o KeyPmidDoi
  \o <<"*", "*", ":", " ">> \o raw.pmid \o <<"\n", "-", "-", "-", "\n">>

RECURSIVE GrammarText(_)
GrammarText(batch) ==
  IF batch = << >> THEN << >>
  ELSE GrammarRecord(Head(batch)) \o GrammarText(Tail(batch))

\* generateContent for a batch: it throws, or answers with one record per
\* paper and two grounding citations
EnrichReplies(batch) ==
  {Failure("error"),
   [Failure("ok") EXCEPT
      !.text = Match(GrammarText(batch)),
      !.chunks = Match(<<[uri |-> batch[1].pmid, title |-> <<"first">>],
                         [uri |-> batch[Len(batch)].pmid, title |-> <<"last">>]>>)]}

\* Date.now() and Math.random() at parse time
Stamps == {<<[now |-> 0, rnd |-> 0]>>}

-----------------------------------------------------------------------------
(* The replies arrive                                                      *)

SearchReply(s) ==
  /\ frames[s].pc = "search"
  /\ \E reply \in SearchReplies(s), stamps \in Stamps :
       Commit(s, OnSearchReply(frames[s], reply, stamps))
  /\ UNCHANGED <<apiKey, topic, timeframe, viewMode, isChatOpen, aborted, started>>

FetchReply(s) ==
  /\ frames[s].pc = "fetch"
  /\ \E reply \in FetchReplies(frames[s].chunks[frames[s].ci]), stamps \in Stamps :
       Commit(s, OnChunkReply(frames[s], reply, stamps))
  /\ UNCHANGED <<apiKey, topic, timeframe, viewMode, isChatOpen, aborted, started>>

EnrichReply(s) ==
  /\ frames[s].pc = "enrich"
  /\ \E reply \in EnrichReplies(BatchAt(frames[s].allData, frames[s].bi)),
        stamps \in Stamps :
       Commit(s, OnBatchReply(frames[s], reply, stamps))
  /\ UNCHANGED <<apiKey, topic, timeframe, viewMode, isChatOpen, aborted, started>>

\* the button of App.tsx 724-741: "Stop Search" while state.isLoading,
\* "Start Search" otherwise
ClickStartSearch == ~state.isLoading /\ HandleSearch

ClickStopSearch == state.isLoading /\ HandleStop

Next ==
  \/ ClickStartSearch
  \/ ClickStopSearch
  \/ \E s \in Searches : SearchReply(s)
  \/ \E s \in Searches : FetchReply(s)
  \/ \E s \in Searches : EnrichReply(s)

\* the application as its user drives it
Spec == Init /\ [][Next]_vars

\* the application when every request that was sent is answered in the end,
\* with a reply or with a failure: weak fairness of the three reply actions.
\* That of EnrichReply(s) is written out: the action is enabled exactly
\* while the call waits for a batch reply, and its steps are the steps that
\* count one more reply
SpecLive ==
  /\ Spec
  /\ \A s \in Searches :
       /\ WF_vars(SearchReply(s))
       /\ WF_vars(FetchReply(s))
       /\ <>[](frames[s].pc = "enrich")
            => []<><<frames[s].pc = "enrich">>_(frames[s].ret.enrich)

NextHandlers ==
  \/ HandleSearch
  \/ HandleStop
  \/ \E s \in Searches : SearchReply(s)
  \/ \E s \in Searches : FetchReply(s)
  \/ \E s \in Searches : EnrichReply(s)

\* the handlers whenever they are called, also handleSearch during a search
SpecHandlers == Init /\ [][NextHandlers]_vars

-----------------------------------------------------------------------------
(* fetchLiteratureUpdates called on its own with any topic and selector    *)

\* strings that are no member of enum Timeframe
OtherSelectors == {"", "YEAR_1", "day_1", "1 Day"}

Topics == {TopicALS, TopicMND, TopicALL}

InitQuery ==
  /\ apiKey \in BOOLEAN
  /\ topic \in Topics
  /\ timeframe \in Timeframes \cup OtherSelectors
  /\ viewMode = "search"
  /\ isChatOpen = FALSE
  /\ state = [isLoading |-> FALSE, results |-> << >>, rawResponse |-> << >>,
              error |-> Null, groundingChunks |-> << >>]
  /\ abortControllerRef = 0
  /\ aborted = [s \in Searches |-> FALSE]
  /\ chatSession = Null
  /\ started = 0
  /\ frames = [s \in Searches |-> IdleFrame]

\* fetchLiteratureUpdates(topic, timeframe) up to its first await
CallFetchLiteratureUpdates(s) ==
  /\ frames[s].fn = "none"
  /\ frames' = [frames EXCEPT ![s] = fetchLiteratureUpdates(apiKey, topic, timeframe)]
  /\ UNCHANGED <<apiKey, topic, timeframe, viewMode, isChatOpen, state,
                 abortControllerRef, aborted, chatSession, started>>

NextQuery == \E s \in Searches : CallFetchLiteratureUpdates(s)

SpecQuery == InitQuery /\ [][NextQuery]_vars

-----------------------------------------------------------------------------
(* fetchPubMedDetails called on its own with a list of n identifiers       *)

InitFetch ==
  /\ apiKey = TRUE
  /\ TypeInit
  /\ \E n \in 0..MaxIds :
       frames = [s \in Searches |->
                   IF s = 1 THEN [IdleFrame EXCEPT !.fn = "fetchPubMedDetails",
                                                   !.pmids = IdsOf(1, n)]
                   ELSE IdleFrame]

\* fetchPubMedDetails(ids) up to its first await
CallFetchPubMedDetails ==
  /\ frames[1].fn = "fetchPubMedDetails"
  /\ frames[1].pc = "idle"
  /\ \E stamps \in Stamps : Commit(1, StartFetch(frames[1], frames[1].pmids, stamps))
  /\ UNCHANGED <<apiKey, topic, timeframe, viewMode, isChatOpen, aborted, started>>

NextFetch ==
  \/ CallFetchPubMedDetails
  \/ FetchReply(1)

SpecFetch == InitFetch /\ [][NextFetch]_vars

-----------------------------------------------------------------------------
(* processPapersInBatches called on its own with a list of K raw records   *)

\* the records fetchPubMedDetails gives for K articles
RawRecords(K) == [j \in 1..K |-> ArticleToRaw(ArticleFor(IdsOf(1, K)[j]))]

InitEnrich ==
  /\ apiKey = TRUE
  /\ TypeInit
  /\ \E K \in 0..MaxRecords :
       frames = [s \in Searches |->
                   IF s = 1 THEN [IdleFrame EXCEPT !.fn = "processPapersInBatches",
                                                   !.allData = RawRecords(K)]
                   ELSE IdleFrame]

\* processPapersInBatches(ai, papers) up to its first await
CallProcessPapersInBatches ==
  /\ frames[1].fn = "processPapersInBatches"
  /\ frames[1].pc = "idle"
  /\ \E stamps \in Stamps : Commit(1, StartEnrich(frames[1], stamps))
  /\ UNCHANGED <<apiKey, topic, timeframe, viewMode, isChatOpen, aborted, started>>

NextEnrich ==
  \/ CallProcessPapersInBatches
  \/ EnrichReply(1)

SpecEnrich == InitEnrich /\ [][NextEnrich]_vars

-----------------------------------------------------------------------------
(* parsePapersFromMarkdown called on its own, twice on the same text       *)

\* one labelled line of the Markdown grammar
FieldLine(key, value) == <<"\n", "*", "*">> \o key \o <<"*", "*", ":", " ">> \o value

\* the text the enrichment service is told to write for one record (the
\* format of geminiService.ts 319-335), without the closing delimiter
RecordText(R) ==
  <<"#", "#", "#", " ">> \o R.titleEn
  \o FieldLine(KeyTitleCn, R.titleCn)
  \o FieldLine(KeyFirstAuthor, R.firstAuthor)
  \o FieldLine(KeyFirstInst, R.firstInstitution)
  \o FieldLine(KeyCorrAuthor, R.correspondingAuthor)
  \o FieldLine(KeyJournal, R.journal)
  \o FieldLine(KeyPublishDate, R.publishDate)
  \o FieldLine(KeyPmidDoi, R.pmidDoi)
  \o FieldLine(KeyImpactFactor, R.impactFactor \o <<" ", "(">> \o R.casQuartile \o <<")">>)
  \o FieldLine(KeyDiseaseType, R.diseaseType)
  \o FieldLine(KeyResearchType, R.researchType)
  \o FieldLine(KeySampleSize, R.sampleSize)
  \o FieldLine(KeyUrl, R.url)
  \o FieldLine(KeyQuestion, R.clinicalQuestion)
  \o FieldLine(KeyConclusions, R.keyConclusions)
  \o FieldLine(KeyAbstract, R.abstract)
  \o FieldLine(KeyEndpoints, R.endpointsDetails)

\* a record whose values, but for title and PMID/DOI, are marked with tag
RecordOf(tag, title, pmidDoi, impact) ==
  [ titleEn |-> title, pmidDoi |-> pmidDoi,
    titleCn |-> <<"BiaoTi", tag>>, firstAuthor |-> <<"Author", " ", tag>>,
    firstInstitution |-> <<"Institute", " ", tag>>,
    correspondingAuthor |-> <<"Corresponding", " ", tag>>,
    journal |-> <<"Journal", " ", tag>>,
    publishDate |-> <<"2", "0", "2", "4", "-", "0", "1", "-", "0">> \o <<tag>>,
    impactFactor |-> impact, casQuartile |-> <<"Q", tag>>,
    diseaseType |-> <<"A", "L", "S">>, researchType |-> <<"Clinical">>,
    sampleSize |-> <<"n", "=", tag>>,
    url |-> <<"https://pubmed.ncbi.nlm.nih.gov/">> \o pmidDoi \o <<"/">>,
    clinicalQuestion |-> <<"Question", " ", tag>>,
    keyConclusions |-> <<"Conclusion", " ", tag>>,
    abstract |-> <<"Abstract", " ", tag, ".">>,
    endpointsDetails |-> <<"Endpoint", " ", tag>> ]

RecordA == RecordOf("1", <<"A", "l", "p", "h", "a">>, <<"1", "1", "1", "1", "1", "1">>, <<"5", ".", "2">>)

RecordB ==
  RecordOf("2", <<"B", "e", "t", "a">>,
           <<"2", "2", "2", "2", "2", "2", "2", " ", "/", " ", "1", "0", ".", "1", "/", "x">>,
           <<"9", ".", "1">>)

\* two records of one title whose PMIDs, of five digits, differ
RecordC == RecordOf("3", <<"D", "e", "l", "t", "a">>, <<"1", "2", "3", "4", "5">>, <<"3", ".", "0">>)

RecordD == RecordOf("4", <<"D", "e", "l", "t", "a">>, <<"5", "4", "3", "2", "1">>, <<"3", ".", "0">>)

GrammarRecords == {RecordA, RecordB, RecordC, RecordD}

\* a record that holds a heading and a PMID/DOI line only
ShortRecordText(title, pmidDoi) ==
  <<"#", "#", "#", " ">> \o title \o FieldLine(KeyPmidDoi, pmidDoi)

\* the segments the texts are built from: two full records; a second record
\* with the PMID of the first; two records without PMID whose titles differ
\* in case and punctuation only; two records with the same title and
\* different five-digit PMIDs; the error marker of a failed batch; a segment
\* of fields without heading; a segment with "###" inside a line
Segments ==
  { RecordText(RecordA),
    RecordText(RecordB),
    ShortRecordText(<<"O", "t", "h", "e", "r">>, <<"P", "M", "I", "D", " ", "1", "1", "1", "1", "1", "1">>),
    ShortRecordText(<<"G", "a", "m", "m", "a", "!">>, StrNA),
    ShortRecordText(<<"g", "a", "m", "m", "a">>, <<"n", "o", "n", "e">>),
    RecordText(RecordC),
    RecordText(RecordD),
    <<">", " ", "Error processing papers ", "1", " to ", "1", "0">>,
    <<"*", "*">> \o KeyPmidDoi \o <<"*", "*", ":", " ", "3", "3", "3", "3", "3", "3">>,
    <<"s", "e", "e", " ", "#", "#", "#", "x">> }

\* the segments of a text joined the way the service and the batch processor
\* write them
RECURSIVE TextOf(_)
TextOf(segs) ==
  IF segs = << >> THEN << >>
  ELSE Head(segs) \o <<"\n", "-", "-", "-", "\n", "\n">> \o TextOf(Tail(segs))

SegmentLists == UNION {[1..n -> Segments] : n \in 0..MaxSegments}

\* Date.now() and Math.random() of a call: the same for all its sections, or
\* other ones for the first section than for the rest
ParseStamps == {<<[now |-> 0, rnd |-> 0]>>, <<[now |-> 1, rnd |-> 1], [now |-> 0, rnd |-> 0]>>}

ParseCalls == {1, 2}

InitParse ==
  /\ apiKey = TRUE
  /\ TypeInit
  /\ \E segs \in SegmentLists :
       frames = [s \in Searches |->
                   IF s \in ParseCalls
                     THEN [IdleFrame EXCEPT !.fn = "parsePapersFromMarkdown",
                                            !.text = TextOf(segs)]
                     ELSE IdleFrame]

\* parsePapersFromMarkdown(text): the second call after the first
CallParse(s) ==
  /\ frames[s].fn = "parsePapersFromMarkdown"
  /\ frames[s].pc = "idle"
  /\ s = 1 \/ Finished(frames[1])
  /\ \E stamps \in ParseStamps :
       Commit(s, [Return(frames[s], parsePapersFromMarkdown(frames[s].text, stamps))
                    EXCEPT !.text = frames[s].text])
  /\ UNCHANGED <<apiKey, topic, timeframe, viewMode, isChatOpen, aborted, started>>

NextParse == \E s \in ParseCalls : CallParse(s)

SpecParse == InitParse /\ [][NextParse]_vars

-----------------------------------------------------------------------------
(* The parser called on texts of records that differ in the ranking keys   *)

\* a field line, none for an absent value
OptionalLine(key, value) == IF value = << >> THEN << >> ELSE FieldLine(key, value)

\* a record of a heading and the fields the ranking reads
RankedText(title, disease, impact, type, url) ==
  <<"#", "#", "#", " ">> \o title
  \o OptionalLine(KeyImpactFactor, impact)
  \o OptionalLine(KeyDiseaseType, disease)
  \o OptionalLine(KeyResearchType, type)
  \o OptionalLine(KeyUrl, url)

StrALS == <<"A", "L", "S">>

StrTrialUrl ==
  <<"h", "t", "t", "p", "s", ":", "/", "/", "c", "l", "i", "n", "i", "c", "a", "l", "t", "r", "i", "a", "l", "s", ".", "g", "o", "v", "/", "x">>

StrReview == <<"R", "e", "v", "i", "e", "w">>

StrTrial == <<"C", "l", "i", "n", "i", "c", "a", "l", " ", "T", "r", "i", "a", "l">>

StrRegistry == <<"R", "e", "g", "i", "s", "t", "r", "y">>

\* a record of plain literature and a record of a registry, of one disease
\* and without impact factor
PlainRecord == RankedText(<<"T", "3">>, StrALS, StrNA, StrReview, << >>)

RegistryRecord == RankedText(<<"R", "1">>, StrALS, StrNA, StrRegistry, << >>)

\* records of the disease ALS with the impact factors 5.0, 12.1, N/A, none,
\* "abc" and 5, of a registry or not; a record without disease type, one of
\* a disease the lookup does not know, and one of the disease "pd"
RankedSegments ==
  { RankedText(<<"T", "1">>, StrALS, <<"5", ".", "0">>, StrReview, << >>),
    RankedText(<<"T", "2">>, StrALS, <<"1", "2", ".", "1">>, StrTrial, << >>),
    PlainRecord,
    RankedText(<<"T", "4">>, StrALS, << >>, StrReview, StrTrialUrl),
    RankedText(<<"T", "5">>, StrALS, <<"a", "b", "c">>, StrReview, << >>),
    RankedText(<<"T", "6">>, StrALS, <<"5">>, <<"R", "e", "g", "i", "s", "t", "e", "r">>, << >>),
    RankedText(<<"T", "7">>, << >>, <<"2", "0", ".", "0">>, StrReview, << >>),
    RankedText(<<"T", "8">>, <<"S", "t", "r", "o", "k", "e">>, <<"3", "0", ".", "0">>, StrReview, << >>),
    RankedText(<<"T", "9">>, <<"p", "d">>, <<"5", ".", "0">>, StrReview, << >>) }

\* disease-type texts, each with the rank the lookup of lines 191-204 gives
\* it (99: none of its lines applies)
DiseaseTexts ==
  { <<<<"A", "L", "S">>, 1>>,
    <<<<"M", "N", "D">>, 2>>,
    <<<<"A", "D">>, 3>>,
    <<<<"P", "a", "r", "k", "i", "n", "s", "o", "n", " ", "d", "i", "s", "e", "a", "s", "e">>, 4>>,
    <<<<"F", "T", "D">>, 5>>,
    <<<<"N", "e", "u", "r", "o", "d", "e", "g", "e", "n", "e", "r", "a", "t", "i", "v", "e">>, 6>>,
    <<<<"G", "e", "n", "e", "r", "a", "l">>, 6>>,
    <<<<"M", "S", "A">>, 7>>,
    <<<<"H", "D">>, 8>>,
    <<<<"P", "S", "P">>, 9>>,
    <<<<"C", "B", "D">>, 10>>,
    <<<<"A", "D", "H", "D">>, 99>>,
    <<<<"S", "t", "r", "o", "k", "e">>, 99>>,
    <<<<"p", "d">>, 4>> }

\* one record for each disease-type text, its impact factor the higher the
\* worse its rank
DiseaseSegments ==
  {RankedText(<<"D">> \o d[1], d[1], NatToDigits(d[2]), StrReview, << >>) : d \in DiseaseTexts}

\* the texts to rank: up to MaxRanked records that differ in impact factor
\* and category; one or two records that differ in disease type; the
\* registry record before or after the plain one
RankedLists ==
  UNION {[1..n -> RankedSegments] : n \in 0..MaxRanked}
    \cup {<<a>> : a \in DiseaseSegments}
    \cup {<<a, b>> : a, b \in DiseaseSegments}
    \cup {<<a, b>> : a, b \in {PlainRecord, RegistryRecord}}

InitSort ==
  /\ apiKey = TRUE
  /\ TypeInit
  /\ \E segs \in RankedLists :
       frames = [s \in Searches |->
                   IF s = 1
                     THEN [IdleFrame EXCEPT !.fn = "parsePapersFromMarkdown",
                                            !.text = TextOf(segs)]
                     ELSE IdleFrame]

SpecSort == InitSort /\ [][NextParse]_vars

-----------------------------------------------------------------------------
(* The parser called on a text whose last record the service cut short     *)

\* the output of a batch that ends after k characters of its last record,
\* with the separator the batch processor appends (line 352)
TruncatedOutput(lead, k) ==
  TextOf(lead) \o Slice(RecordText(RecordB), 1, k) \o BatchSeparator

InitTruncated ==
  /\ apiKey = TRUE
  /\ TypeInit
  /\ \E lead \in {<< >>, <<RecordText(RecordA)>>}, k \in 1..(Len(RecordText(RecordB)) - 1) :
       frames = [s \in Searches |->
                   IF s = 1
                     THEN [IdleFrame EXCEPT !.fn = "parsePapersFromMarkdown",
                                            !.text = TruncatedOutput(lead, k)]
                     ELSE IdleFrame]

SpecTruncated == InitTruncated /\ [][NextParse]_vars

-----------------------------------------------------------------------------
(* The parser called on texts of records whose dedup keys meet             *)

\* two full records; a record of another title with the PMID of the first;
\* a record without PMID whose title is the PMID of the first; two records
\* without PMID whose titles differ in case and punctuation only; two
\* records without PMID whose titles hold no letter and no digit
DedupSegments ==
  { RecordText(RecordA),
    RecordText(RecordB),
    ShortRecordText(<<"O", "t", "h", "e", "r">>, <<"P", "M", "I", "D", " ", "1", "1", "1", "1", "1", "1">>),
    ShortRecordText(<<"1", "1", "1", "1", "1", "1">>, StrNA),
    ShortRecordText(<<"G", "a", "m", "m", "a", "!">>, StrNA),
    ShortRecordText(<<"g", "a", "m", "m", "a">>, StrNA),
    ShortRecordText(<<"?", "!">>, StrNA),
    ShortRecordText(<<"(", "*", ")">>, StrNA) }

DedupLists == UNION {[1..n -> DedupSegments] : n \in 0..MaxSegments}

InitDedup ==
  /\ apiKey = TRUE
  /\ TypeInit
  /\ \E segs \in DedupLists :
       frames = [s \in Searches |->
                   IF s = 1
                     THEN [IdleFrame EXCEPT !.fn = "parsePapersFromMarkdown",
                                            !.text = TextOf(segs)]
                     ELSE IdleFrame]

SpecDedup == InitDedup /\ [][NextParse]_vars

-----------------------------------------------------------------------------
(* Properties of the search pipeline                                       *)

\* the searches whose service call has not been released yet
Calls == {s \in Searches : frames[s].fn = "fetchLiteratureUpdates"}

\* the message of the banner of App.tsx 746-751, Null when none is rendered
ErrorBanner(st) == st.error

\* C1: when the API credential is absent, fetchLiteratureUpdates fails with
\* the missing-credential error before any request is issued: in every run
\* without the credential no search, detail or enrichment request is ever
\* counted, no call is suspended at a request, and every call has thrown the
\* missing-credential error.
MissingCredentialFailsFirst ==
  ~apiKey =>
    \A s \in Searches :
      /\ frames[s].iss = Counters
      /\ frames[s].pc \in {"idle", "done"}
      /\ s \in Calls =>
           /\ frames[s].res.kind = "error"
           /\ frames[s].res.error.message = MsgMissingKey

\* C1, its case: a call made without the credential has ended
MissingCredentialCallEnded ==
  /\ ~apiKey
  /\ \E s \in Calls : Finished(frames[s]) /\ frames[s].res.error.message = MsgMissingKey

\* C2: with the credential present, no call of fetchLiteratureUpdates ends by
\* throwing, whichever of its requests fail: a call that is over has returned
\* a result value.
NoExceptionWithCredential ==
  apiKey =>
    \A s \in Calls :
      /\ frames[s].res.kind # "error"
      /\ Finished(frames[s]) => frames[s].res.kind = "value"

\* C2, its case: a call in which a detail chunk brought no record and the
\* enrichment batch failed has returned a value
FailuresRecovered ==
  /\ apiKey
  /\ \E s \in Calls :
       /\ Finished(frames[s])
       /\ frames[s].iss.fetch = 2
       /\ Len(frames[s].allData) = 1
       /\ frames[s].res.kind = "value"
       /\ frames[s].res.value.rawResponse = ErrorMarker(0, 1)

\* C3: a detail request is issued only when the search found identifiers,
\* an enrichment request only when the detail fetch brought records, and a
\* call that found no identifier or fetched no record returns an empty paper
\* list.
EmptyShortCircuits ==
  \A s \in Calls :
    LET r == frames[s]
    IN  /\ r.iss.fetch > 0 => r.pmids # << >>
        /\ r.iss.enrich > 0 => r.allData # << >>
        /\ r.pmids = << >> => r.iss.fetch = 0 /\ r.iss.enrich = 0
        /\ Finished(r) /\ r.res.kind = "value" /\ (r.pmids = << >> \/ r.allData = << >>)
             => r.res.value.papers = << >>

\* C3, its case: identifiers were found, both detail requests brought no
\* record, and the call returned without papers
NoRecordCallEnded ==
  \E s \in Calls :
    /\ Finished(frames[s])
    /\ frames[s].pmids # << >>
    /\ frames[s].iss.fetch = 2
    /\ frames[s].allData = << >>
    /\ frames[s].res.kind = "value"
    /\ frames[s].res.value.papers = << >>

\* C4: after a search that ended with no identifier, or with identifiers but
\* no detail record, the page shows a message, and not the same message for
\* the two conditions.
TotalFailureMessageShown ==
  \A s \in Calls :
    LET r == frames[s]
    IN  Finished(r) /\ s = started /\ r.res.kind = "value"
        /\ (r.pmids = << >> \/ r.allData = << >>)
          => /\ ErrorBanner(state) # Null
             /\ r.pmids = << >> => ErrorBanner(state).v = MsgNoPapers
             /\ r.pmids # << >> => ErrorBanner(state).v = MsgNoDetails

NoRequestAfterCancel ==
  /\ [][\A s \in Searches :
          aborted[s] => /\ frames'[s].iss.fetch <= frames[s].iss.fetch
                        /\ frames'[s].iss.enrich <= frames[s].iss.enrich]_vars
  /\ [](\A s \in Calls :
          aborted[s] /\ Finished(frames[s])
            => /\ frames[s].res.kind = "error"
               /\ \/ frames[s].res.error.message = <<"Aborted">>
                  \/ frames[s].res.error.name = "AbortError")

\* C7: a search the user stopped ends with the "stopped by user" message on
\* the page and without its result list.
StoppedMessageShown ==
  \A s \in Calls :
    aborted[s] /\ Finished(frames[s]) /\ s = started
      => /\ ErrorBanner(state) = Match(MsgStopped)
         /\ state.results = << >>

\* C8: within one call at most one request is unanswered at any moment; a
\* detail request is issued only after the search was answered, an
\* enrichment request only after every detail chunk was answered, and the
\* parsed result is returned only after every request was answered.
OneRequestAtATime ==
  \A s \in Calls :
    LET r == frames[s]
    IN  /\ InFlight(r) \in {0, 1}
        /\ r.iss.search <= 1
        /\ r.iss.fetch > 0 => r.ret.search = 1
        /\ r.iss.enrich > 0 =>
             /\ r.ret.fetch = r.iss.fetch
             /\ r.iss.fetch = (Len(r.pmids) + 49) \div 50
        /\ r.pc = "search" => r.iss.fetch = 0 /\ r.iss.enrich = 0
        /\ r.pc = "fetch" => r.iss.enrich = 0
        /\ Finished(r) => r.ret = r.iss

\* C8, its case: a call went through two detail chunks and two enrichment
\* batches and returned papers
AllStagesRun ==
  \E s \in Calls :
    /\ Finished(frames[s])
    /\ frames[s].iss.fetch = 2
    /\ frames[s].iss.enrich = 2
    /\ frames[s].res.kind = "value"
    /\ frames[s].res.value.papers # << >>

\* C9: searchPubMedIDs does not throw: after a transport error or a
\* non-success response it has produced the empty list and the call goes on
\* without an exception, and one call issues one search request, never two.
SearchNeverRaises ==
  \A s \in Calls :
    LET r == frames[s]
    IN  /\ r.iss.search <= 1
        /\ r.ret.search = 1 => r.iss.search = 1
        /\ r.sKind \in {"neterr", "notok"} =>
             /\ r.pmids = << >>
             /\ r.iss.search = 1
             /\ Finished(r) /\ r.res.kind = "value"
        /\ r.res.kind = "error" => r.ret.search = 0

\* C9, its case: the search request failed in transport
SearchFailed ==
  \E s \in Calls :
    /\ frames[s].sKind = "neterr"
    /\ frames[s].iss.search = 1
    /\ frames[s].pmids = << >>
    /\ frames[s].res.kind = "value"

\* C10: the requests of fetchPubMedDetails carry consecutive slices of the
\* identifier list, 50 identifiers each but for the last, in input order;
\* when the call is over it has issued ceil(n/50) requests that together
\* carry every identifier once, and none for the empty list, for which it
\* returns the empty list.
ChunkedInOrder ==
  \A s \in Searches :
    LET r == frames[s]
        n == Len(r.pmids)
    IN  r.fn = "fetchPubMedDetails" =>
          /\ r.iss.fetch = Len(r.fetchReqs)
          /\ \A k \in 1..Len(r.fetchReqs) :
               /\ Len(r.fetchReqs[k]) \in 1..50
               /\ r.fetchReqs[k] =
                    Slice(r.pmids, 50 * (k - 1) + 1, IF 50 * k < n THEN 50 * k ELSE n)
          /\ Finished(r) =>
               /\ r.iss.fetch = (n + 49) \div 50
               /\ Join(r.fetchReqs, << >>) = r.pmids
               /\ n = 0 => r.iss.fetch = 0 /\ r.res.value = << >>

\* C10, its case: a list of 101 identifiers was fetched in three requests
ThreeChunksFetched ==
  \E s \in Searches :
    /\ frames[s].fn = "fetchPubMedDetails"
    /\ Finished(frames[s])
    /\ Len(frames[s].pmids) = 101
    /\ Len(frames[s].fetchReqs) = 3

-----------------------------------------------------------------------------
(* Properties of the record fetcher                                        *)

\* the records a list of efetch replies brings, in the order of the replies:
\* none for a reply that is no well-formed document
RecordsOfReplies(log) ==
  Join([k \in 1..Len(log) |->
          IF log[k].kind = "ok"
            THEN [j \in 1..Len(log[k].articles) |-> ArticleToRaw(log[k].articles[j])]
            ELSE << >>], << >>)

\* C11: in fetchPubMedDetails a chunk whose request fails, is answered with
\* a non-success status or with a malformed document adds no record and the
\* loop goes on: the records held are those of the successful replies in
\* chunk order, and when the call is over every chunk was requested and
\* these records are what it returns.
FailedChunkSkipped ==
  \A s \in Searches :
    LET r == frames[s]
    IN  r.fn = "fetchPubMedDetails" =>
          /\ Len(r.fetchLog) = r.ret.fetch
          /\ r.allData = RecordsOfReplies(r.fetchLog)
          /\ \A k \in 1..Len(r.fetchLog) :
               r.fetchLog[k].kind \in {"neterr", "notok", "parsererror"}
                 => RecordsOfReplies(SubSeq(r.fetchLog, 1, k))
                      = RecordsOfReplies(SubSeq(r.fetchLog, 1, k - 1))
          /\ Finished(r) =>
               /\ r.iss.fetch = (Len(r.pmids) + 49) \div 50
               /\ r.ret.fetch = r.iss.fetch
               /\ r.res.kind = "value"
               /\ r.res.value = RecordsOfReplies(r.fetchLog)

\* C11, its case: of three chunks the second failed in transport, the first
\* and the third brought their records
MiddleChunkFailed ==
  \E s \in Searches :
    /\ frames[s].fn = "fetchPubMedDetails"
    /\ Finished(frames[s])
    /\ Len(frames[s].fetchLog) = 3
    /\ frames[s].fetchLog[1].kind = "ok"
    /\ frames[s].fetchLog[2].kind = "neterr"
    /\ frames[s].fetchLog[3].kind = "ok"
    /\ Len(frames[s].fetchLog[1].articles) > 0
    /\ Len(frames[s].fetchLog[3].articles) > 0
    /\ Len(frames[s].res.value)
         = Len(frames[s].fetchLog[1].articles) + Len(frames[s].fetchLog[3].articles)

\* the number of well-formed elements among the articles of the documents
\* received
RECURSIVE WellFormedCount(_)
WellFormedCount(log) ==
  IF log = << >> THEN 0
  ELSE WellFormedCount(Tail(log))
       + Cardinality({j \in 1..Len(Head(log).articles) : WellFormed(Head(log).articles[j])})

\* C12: fetchPubMedDetails returns one record for each well-formed element of
\* the documents it received and none for a malformed one: a document with N
\* well-formed elements and one malformed element gives N records.
MalformedRecordDropped ==
  \A s \in Searches :
    LET r == frames[s]
    IN  r.fn = "fetchPubMedDetails" /\ Finished(r)
          => Len(r.res.value) = WellFormedCount(r.fetchLog)

-----------------------------------------------------------------------------
(* Properties of the enrichment batch processor                            *)

\* the calls of processPapersInBatches
EnrichCalls == {s \in Searches : frames[s].fn = "processPapersInBatches"}

\* C13: the requests of processPapersInBatches carry consecutive batches of
\* the K records, 10 each but for the last, in input order and labelled with
\* their position; when the call is over it has issued ceil(K/10) requests,
\* one for every batch whether it failed or not, and every record was sent
\* once.
BatchedInOrder ==
  \A s \in EnrichCalls :
    LET r == frames[s]
        K == Len(r.allData)
    IN  /\ r.iss.enrich = Len(r.enrichReqs)
        /\ \A k \in 1..Len(r.enrichReqs) :
             /\ Len(r.enrichReqs[k]) \in 1..10
             /\ 10 * (k - 1) + Len(r.enrichReqs[k]) <= K
             /\ k < Len(r.enrichReqs) => Len(r.enrichReqs[k]) = 10
             /\ \A idx \in 1..Len(r.enrichReqs[k]) :
                  /\ r.enrichReqs[k][idx].label = 10 * (k - 1) + idx
                  /\ r.enrichReqs[k][idx].pmid = r.allData[10 * (k - 1) + idx].pmid
        /\ Finished(r) =>
             /\ r.iss.enrich = (K + 9) \div 10
             /\ Len(Join(r.enrichReqs, << >>)) = K

\* C13, its case: 21 records went out in three requests, the second of which
\* failed
ThreeBatchesSent ==
  \E s \in EnrichCalls :
    /\ Finished(frames[s])
    /\ Len(frames[s].allData) = 21
    /\ Len(frames[s].enrichReqs) = 3
    /\ frames[s].enrichLog[2].kind = "error"

\* the position and size of batch k of K records
BatchStart(k) == 10 * (k - 1)
BatchLen(k, K) == IF 10 * k < K THEN 10 ELSE K - 10 * (k - 1)

\* the text the replies of a call add up to: the text of a successful batch
\* or the error marker of a failed one, each followed by the delimiter block
TextOfReplies(log, K) ==
  Join([k \in 1..Len(log) |->
          IF log[k].kind = "ok"
            THEN OrDefault(log[k].text, << >>) \o <<"\n", "\n", "-", "-", "-", "\n", "\n">>
            ELSE <<"\n", "\n", ">", " ", "Error processing papers ">>
                 \o NatToDigits(BatchStart(k) + 1) \o <<" to ">>
                 \o NatToDigits(BatchStart(k) + BatchLen(k, K))
                 \o <<"\n", "\n", "-", "-", "-", "\n", "\n">>], << >>)

\* C14: a failing batch does not end processPapersInBatches: the text holds,
\* in batch order, the output of every successful batch and an error marker
\* with the delimiter in the place of every failed one; the call requests
\* every batch and returns this text.
FailedBatchMarked ==
  \A s \in EnrichCalls :
    LET r == frames[s]
        K == Len(r.allData)
    IN  /\ Len(r.enrichLog) = r.ret.enrich
        /\ ~Finished(r) => r.text = TextOfReplies(r.enrichLog, K)
        /\ Finished(r) =>
             /\ r.res.kind = "value"
             /\ r.iss.enrich = (K + 9) \div 10
             /\ r.ret.enrich = r.iss.enrich
             /\ r.res.value.text = TextOfReplies(r.enrichLog, K)

\* C14, its case: the first of three batches failed, the other two succeeded
FirstBatchFailed ==
  \E s \in EnrichCalls :
    /\ Finished(frames[s])
    /\ Len(frames[s].enrichLog) = 3
    /\ frames[s].enrichLog[1].kind = "error"
    /\ frames[s].enrichLog[2].kind = "ok"
    /\ frames[s].enrichLog[3].kind = "ok"
    /\ frames[s].res.kind = "value"

\* the citations of the successful replies, in reply order
CitationsOfReplies(log) ==
  Join([k \in 1..Len(log) |->
          IF log[k].kind = "ok" THEN OrDefault(log[k].chunks, << >>) ELSE << >>], << >>)

\* C15: the citation list of processPapersInBatches is the concatenation, in
\* batch order and in the order within a batch, of the citations of the
\* successful batches; a failed batch adds none and removes none.
CitationsAccumulated ==
  \A s \in EnrichCalls :
    LET r == frames[s]
    IN  /\ ~Finished(r) => r.grounding = CitationsOfReplies(r.enrichLog)
        /\ Finished(r) =>
             r.res.value.groundingChunks = CitationsOfReplies(r.enrichLog)

\* C15, its case: a failed batch between two successful ones, four citations
\* returned
CitationsAroundFailure ==
  \E s \in EnrichCalls :
    /\ Finished(frames[s])
    /\ Len(frames[s].enrichLog) = 3
    /\ frames[s].enrichLog[1].kind = "ok"
    /\ frames[s].enrichLog[2].kind = "error"
    /\ frames[s].enrichLog[3].kind = "ok"
    /\ Len(frames[s].res.value.groundingChunks) = 4

-----------------------------------------------------------------------------
(* Properties of the Markdown record parser                                *)

\* the finished calls of parsePapersFromMarkdown
Parsed == {s \in Searches : frames[s].fn = "parsePapersFromMarkdown" /\ Finished(frames[s])}

\* a line of the section is a heading "### <title>": three hashes at the
\* start of a line and, after whitespace or none, a title on the same line
HasHeadingLine(section) ==
  \E p \in 1..Len(section), g \in 1..Len(section) :
    /\ p = 1 \/ section[p - 1] \in LineTerminators
    /\ StartsAt(section, p, <<"#", "#", "#">>)
    /\ g >= p + 3
    /\ \A k \in (p + 3)..(g - 1) : section[k] \in WhiteSpace \ LineTerminators
    /\ section[g] \notin WhiteSpace

\* C16: every paper comes from a segment with a heading line "### <title>":
\* a segment without one gives no record, whatever else it holds.
OnlyHeadingLinesParsed ==
  \A s \in Parsed :
    \A i \in 1..Len(frames[s].res.value) :
      HasHeadingLine(frames[s].res.value[i].rawText)

GrammarTexts == {RecordText(R) : R \in GrammarRecords}

\* every segment is the grammar text of a record
IsGrammarText(sections) == \A i \in 1..Len(sections) : sections[i] \in GrammarTexts

\* the records the segments of a grammar text were built from, in order
RecordsOf(sections) ==
  [i \in 1..Len(sections) |-> CHOOSE R \in GrammarRecords : sections[i] = RecordText(R)]

\* the PMID of a record: the digits its PMID/DOI value begins with
LeadingPmid(R) == Slice(R.pmidDoi, 1, RunEnd(R.pmidDoi, 1, Digits))

DistinctPmids(recs) ==
  \A i, j \in 1..Len(recs) : i # j => LeadingPmid(recs[i]) # LeadingPmid(recs[j])

\* the paper holds every value of the record, the quartile inside the
\* impact factor line as the grammar writes it
Carries(paper, R) ==
  /\ paper.titleEn = R.titleEn
  /\ paper.titleCn = R.titleCn
  /\ paper.firstAuthor = R.firstAuthor
  /\ paper.firstInstitution = R.firstInstitution
  /\ paper.correspondingAuthor = R.correspondingAuthor
  /\ paper.journal = R.journal
  /\ paper.publishDate = R.publishDate
  /\ paper.pmidDoi = R.pmidDoi
  /\ paper.impactFactor = R.impactFactor \o <<" ", "(">> \o R.casQuartile \o <<")">>
  /\ paper.diseaseType = R.diseaseType
  /\ paper.researchType = R.researchType
  /\ paper.sampleSize = R.sampleSize
  /\ paper.url = R.url
  /\ paper.clinicalQuestion = R.clinicalQuestion
  /\ paper.keyConclusions = R.keyConclusions
  /\ paper.abstract = R.abstract
  /\ paper.endpointsDetails = R.endpointsDetails

\* the papers are as many as the records and every record has its paper
RoundTrip(papers, recs) ==
  /\ Len(papers) = Len(recs)
  /\ \A i \in 1..Len(recs) : \E j \in 1..Len(papers) : Carries(papers[j], recs[i])

\* C17 as the spec words it: the grammar text of records with pairwise
\* distinct PMIDs parses to as many papers as records, each record's values
\* all held by a paper.
DistinctPmidsRoundTrip ==
  \A s \in Parsed :
    LET sections == Sections(frames[s].text)
        recs     == RecordsOf(sections)
    IN  IsGrammarText(sections) /\ DistinctPmids(recs)
          => RoundTrip(frames[s].res.value, recs)

\* C17 as the code has it: the grammar text of records whose PMIDs are
\* pairwise distinct and of six or more digits parses to as many papers as
\* records, each record's values all held by a paper.
LongPmidsRoundTrip ==
  \A s \in Parsed :
    LET sections == Sections(frames[s].text)
        recs     == RecordsOf(sections)
    IN  /\ IsGrammarText(sections)
        /\ DistinctPmids(recs)
        /\ \A i \in 1..Len(recs) : Len(LeadingPmid(recs[i])) >= 6
        => RoundTrip(frames[s].res.value, recs)

\* C17, its case: the text of two records with PMIDs of six and seven digits
\* was parsed into two papers
TwoRecordsParsed ==
  \E s \in Parsed :
    /\ Sections(frames[s].text) = <<RecordText(RecordA), RecordText(RecordB)>>
    /\ Len(frames[s].res.value) = 2

\* a paper without its synthetic identifier
Content(paper) == [paper EXCEPT !.id = << >>]

ContentsOf(papers) == [i \in 1..Len(papers) |-> Content(papers[i])]

\* both calls on the one text have returned
ParsedTwice == ParseCalls \subseteq Parsed /\ frames[1].text = frames[2].text

\* C18 as the spec words it: two calls on the same text return the same
\* list of papers, in the same order and with the same value of every field.
SameListTwice ==
  ParsedTwice => frames[1].res.value = frames[2].res.value

\* C18 as the code has it: two calls on the same text return lists of the
\* same length and order whose papers agree in every field but the synthetic
\* identifier.
SameContentsTwice ==
  ParsedTwice => ContentsOf(frames[1].res.value) = ContentsOf(frames[2].res.value)

\* C18, its case: two calls on a text of several papers have returned, and
\* the identifiers they gave differ
ParsedTwiceApart ==
  /\ ParsedTwice
  /\ Len(frames[1].res.value) >= 2
  /\ frames[1].res.value # frames[2].res.value

\* C19: every paper of a result has a non-empty identifier and no two papers
\* of one result share an identifier, also when the timestamp and the random
\* component of their identifiers coincide.
IdentifiersUnique ==
  \A s \in Parsed :
    LET papers == frames[s].res.value
    IN  /\ \A i \in 1..Len(papers) : papers[i].id # << >>
        /\ \A i, j \in 1..Len(papers) : i # j => papers[i].id # papers[j].id

\* C19, its case: a result of two papers whose identifiers hold the same
\* timestamp and the same random component
SameStampTwoPapers ==
  \E s \in Parsed :
    /\ Len(frames[s].res.value) = 2
    /\ {frames[s].res.value[1].id, frames[s].res.value[2].id}
         = {<<"p", "a", "p", "e", "r", "-", "0", "-", "0", "-", "0">>,
            <<"p", "a", "p", "e", "r", "-", "1", "-", "0", "-", "0">>}

\* the PMID/DOI value holds six digits in a row
HasLongDigitRun(pmidDoi) ==
  \E p \in 1..Len(pmidDoi) : \A q \in p..(p + 5) : q <= Len(pmidDoi) /\ pmidDoi[q] \in Digits

\* the key is of the form the spec gives it: six or more digits out of the
\* PMID/DOI value when it holds such a run, and otherwise at most 50 lower
\* case letters and digits
KeyWellFormed(paper) ==
  LET key == DedupKey(paper)
  IN  IF HasLongDigitRun(paper.pmidDoi)
        THEN /\ Len(key) >= 6
             /\ \A k \in 1..Len(key) : key[k] \in Digits
             /\ Includes(paper.pmidDoi, key)
        ELSE /\ Len(key) <= 50
             /\ \A k \in 1..Len(key) : key[k] \in LowerLetters \cup Digits
             /\ key = NormalizedTitle(paper.titleEn)

\* the position of the first record that has the key
FirstWithKey(raws, key) ==
  CHOOSE i \in 1..Len(raws) :
    /\ DedupKey(raws[i]) = key
    /\ \A j \in 1..(i - 1) : DedupKey(raws[j]) # key

\* C20: the result holds, for each dedup key of the parsed records, exactly
\* the first parsed record with that key; every later one is dropped, the
\* key is the first run of six or more digits of the PMID/DOI value or else
\* the normalised title, and no two papers of the result share a key.
FirstPerKeyKept ==
  \A s \in Parsed :
    LET papers == frames[s].res.value
        raws   == RawPapersFrom(Sections(frames[s].text), 1, <<[now |-> 0, rnd |-> 0]>>)
        keys   == {DedupKey(raws[i]) : i \in 1..Len(raws)}
    IN  /\ Len(papers) = Cardinality(keys)
        /\ \A i, j \in 1..Len(papers) : i # j => DedupKey(papers[i]) # DedupKey(papers[j])
        /\ \A i \in 1..Len(papers) :
             /\ KeyWellFormed(papers[i])
             /\ DedupKey(papers[i]) \in keys
             /\ Content(papers[i]) = Content(raws[FirstWithKey(raws, DedupKey(papers[i]))])

\* C20, its case: of a short record and a full record with the same PMID,
\* in this order, the result holds the short one only
LaterDuplicateDropped ==
  \E s \in Parsed :
    /\ Len(Sections(frames[s].text)) = 2
    /\ Sections(frames[s].text)[2] = RecordText(RecordA)
    /\ Len(frames[s].res.value) = 1
    /\ frames[s].res.value[1].titleEn = <<"O", "t", "h", "e", "r">>

-----------------------------------------------------------------------------
(* Properties of the ranker                                                *)

\* the rank the table gives a disease-type text
LookupRank(text) == (CHOOSE d \in DiseaseTexts : d[1] = text)[2]

\* the rank the spec gives it: general text ranks worst
WorstForGeneral(text) == IF text = StrGeneral THEN 99 ELSE LookupRank(text)

ImpactTenths(text) ==
  CASE text = <<"5", ".", "0">> -> 50
    [] text = <<"5">> -> 50
    [] text = <<"1", "2", ".", "1">> -> 121
    [] text = <<"2", "0", ".", "0">> -> 200
    [] text = <<"3", "0", ".", "0">> -> 300
    [] text = StrNA \/ text = <<"a", "b", "c">> -> 0
    [] OTHER -> 10 * DigitsToNat(text)

\* 1 for the records of a trial or a registry, by research type or link
TrialOrRegistry(paper) ==
  IF \/ paper.researchType = StrTrial
     \/ paper.researchType = <<"R", "e", "g", "i", "s", "t", "e", "r">>
     \/ paper.url = StrTrialUrl
    THEN 1 ELSE 0

\* C22: among papers of one disease rank, of two different positive impact
\* factors the higher comes first, a paper without a positive impact factor
\* comes after every paper that has one, and when neither has one the
\* category score decides.
RankedByImpact ==
  \A s \in Parsed :
    LET out == frames[s].res.value
    IN  \A i, j \in 1..Len(out) :
          i < j /\ LookupRank(out[i].diseaseType) = LookupRank(out[j].diseaseType)
            => LET a == ImpactTenths(out[i].impactFactor)
                   b == ImpactTenths(out[j].impactFactor)
               IN  /\ a > 0 /\ b > 0 => a >= b
                   /\ ~(a = 0 /\ b > 0)
                   /\ a = 0 /\ b = 0 => TrialOrRegistry(out[i]) <= TrialOrRegistry(out[j])

\* C22, its case: records of one disease parsed in the order N/A, 5.0, 12.1
\* come out in the order 12.1, 5.0, N/A
ImpactDescending ==
  \E s \in Parsed :
    /\ Len(frames[s].res.value) = 3
    /\ [i \in 1..3 |-> frames[s].res.value[i].titleEn] = << <<"T", "2">>, <<"T", "1">>, <<"T", "3">> >>
    /\ frames[s].res.value[3].rawText = Sections(frames[s].text)[1]
    /\ frames[s].res.value[1].rawText = Sections(frames[s].text)[3]

\* the research type or the link of the paper names a trial or a registry
SignalsTrialOrRegistry(paper) ==
  TrialOrRegistry(paper) = 1 \/ paper.researchType = StrRegistry

\* C23: the category score is 1 exactly when the research type or the link
\* signals a clinical trial or a registry and 0 otherwise, and among papers
\* tied on disease rank and impact factor the papers of score 0 come before
\* the papers of score 1, trials and registries after plain literature.
RegistryRankedLast ==
  \A s \in Parsed :
    LET out == frames[s].res.value
    IN  /\ \A i \in 1..Len(out) :
             getCategoryScore(out[i]) = (IF SignalsTrialOrRegistry(out[i]) THEN 1 ELSE 0)
        /\ \A i, j \in 1..Len(out) :
             /\ i < j
             /\ LookupRank(out[i].diseaseType) = LookupRank(out[j].diseaseType)
             /\ ImpactTenths(out[i].impactFactor) = ImpactTenths(out[j].impactFactor)
             => ~(SignalsTrialOrRegistry(out[i]) /\ ~SignalsTrialOrRegistry(out[j]))

\* C24: the returned list is ordered as the comparator orders: for any two
\* positions i < j the comparator does not put the paper at j before the
\* paper at i, and over the papers of a result the comparator is
\* antisymmetric and transitive.
OrderedByComparator ==
  \A s \in Parsed :
    LET out == frames[s].res.value
    IN  /\ \A i, j \in 1..Len(out) : i < j => ComparePapers(out[i], out[j]) <= 0
        /\ \A i, j \in 1..Len(out) :
             ComparePapers(out[i], out[j]) = 0 - ComparePapers(out[j], out[i])
        /\ \A i, j, k \in 1..Len(out) :
             ComparePapers(out[i], out[j]) <= 0 /\ ComparePapers(out[j], out[k]) <= 0
               => ComparePapers(out[i], out[k]) <= 0

\* C24, its case: three records parsed in the reverse of their ranking, by
\* disease rank against impact factor, come out ranked
ReverseTextRanked ==
  \E s \in Parsed :
    /\ Len(frames[s].res.value) = 3
    /\ [i \in 1..3 |-> frames[s].res.value[i].titleEn] = << <<"T", "4">>, <<"T", "7">>, <<"T", "8">> >>
    /\ frames[s].res.value[1].rawText = Sections(frames[s].text)[3]
    /\ frames[s].res.value[3].rawText = Sections(frames[s].text)[1]

\* the position of the section among the sections of the text
SectionIndex(text, section) ==
  CHOOSE i \in 1..Len(Sections(text)) :
    /\ Sections(text)[i] = section
    /\ \A k \in 1..(i - 1) : Sections(text)[k] # section

\* the papers tie on disease rank, impact factor decision and category score
TiedOnAllKeys(a, b) ==
  /\ LookupRank(a.diseaseType) = LookupRank(b.diseaseType)
  /\ ImpactTenths(a.impactFactor) = ImpactTenths(b.impactFactor)
  /\ getCategoryScore(a) = getCategoryScore(b)

\* C25: papers that tie on all three ranking keys appear in the result in
\* the order in which they were parsed; no fourth key orders them.
TiesKeepParseOrder ==
  \A s \in Parsed :
    LET out == frames[s].res.value
    IN  \A i, j \in 1..Len(out) :
          i < j /\ TiedOnAllKeys(out[i], out[j])
            => SectionIndex(frames[s].text, out[i].rawText)
                 < SectionIndex(frames[s].text, out[j].rawText)

\* C25, its case: the record with the impact factor "abc" parsed before the
\* one with the impact factor N/A, both of one disease and one category,
\* stays before it
TiedPairKept ==
  \E s \in Parsed :
    /\ Len(frames[s].res.value) = 2
    /\ TiedOnAllKeys(frames[s].res.value[1], frames[s].res.value[2])
    /\ frames[s].res.value[1].titleEn = <<"T", "5">>
    /\ frames[s].res.value[2].titleEn = <<"T", "3">>

-----------------------------------------------------------------------------
(* Properties of the query builder                                         *)

\* C26: for every recency selector, recognized or not, the number of days
\* sent with the search is one of 1, 3, 7 and 30: 1, 3, 7 and 30 for the
\* four members of the enumeration and 7 for any other selector, whatever
\* the topic.
DaysOfSelector ==
  \A s \in Searches :
    frames[s].pc = "search"
      => /\ frames[s].days \in {1, 3, 7, 30}
         /\ timeframe = "DAY_1" => frames[s].days = 1
         /\ timeframe = "DAY_3" => frames[s].days = 3
         /\ timeframe = "WEEK_1" => frames[s].days = 7
         /\ timeframe = "MONTH_1" => frames[s].days = 30
         /\ timeframe \notin Timeframes => frames[s].days = 7

\* C26, its case: a search of the topic ALS was sent with a selector that is
\* no member of the enumeration
UnknownSelectorSent ==
  \E s \in Searches :
    /\ frames[s].pc = "search"
    /\ timeframe = "YEAR_1"
    /\ topic = TopicALS
    /\ frames[s].days = 7

-----------------------------------------------------------------------------
(* Properties of the presentation state                                    *)

\* the last search started has ended
LastSearchEnded == started # 0 /\ Finished(frames[started])

\* C27: the state never holds a message and a non-empty result list at the
\* same time: a search that has started and not ended shows neither results
\* nor error, a search that failed or was stopped leaves the results empty,
\* and a search that succeeded leaves the error null.
MessageOrResults ==
  /\ ~(state.error # Null /\ state.results # << >>)
  /\ state.isLoading => state.results = << >> /\ state.error = Null
  /\ LastSearchEnded /\ (frames[started].res.kind = "error" \/ aborted[started])
       => state.results = << >>
  /\ LastSearchEnded /\ frames[started].res.kind = "value" => state.error = Null

-----------------------------------------------------------------------------
(* Properties of the parser on a truncated last record                     *)

\* the last segment of a text: the record the service cut short
CutSection(text) == LET sections == Sections(text) IN sections[Len(sections)]

\* the papers of a result that were built from a segment
BuiltFrom(section, papers) == {i \in 1..Len(papers) : papers[i].rawText = section}

\* some fields of a paper, the key of their line and the value the parser
\* gives them when the line is missing
CutFields ==
  { <<"pmidDoi", KeyPmidDoi, StrNA>>,
    <<"impactFactor", KeyImpactFactor, StrNA>>,
    <<"diseaseType", KeyDiseaseType, StrGeneral>>,
    <<"researchType", KeyResearchType, StrLiterature>>,
    <<"abstract", KeyAbstract, <<"ZanWuZhaiYao">>>>,
    <<"endpointsDetails", KeyEndpoints, StrNA>> }

IsPrefix(a, b) == Len(a) <= Len(b) /\ a = Slice(b, 1, Len(a))

\* C28 as stated: a record the service cut short gives no paper; every paper
\* of the result is built from a complete record.
TruncatedRecordDropped ==
  \A s \in Parsed :
    \A i \in 1..Len(frames[s].res.value) :
      frames[s].res.value[i].rawText \in GrammarTexts

\* C28: the record the service cut short is dropped exactly when the cut
\* left no heading "### <title>"; otherwise a paper is built from it, with
\* the part of the title the cut left and the parser's values for the fields
\* whose lines the cut removed.
TruncatedRecordKept ==
  \A s \in Parsed :
    LET cut    == CutSection(frames[s].text)
        papers == frames[s].res.value
    IN  /\ BuiltFrom(cut, papers) # {} <=> HasHeadingLine(cut)
        /\ \A i \in BuiltFrom(cut, papers) :
             /\ papers[i].titleEn # << >>
             /\ IsPrefix(papers[i].titleEn, RecordB.titleEn)
             /\ \A f \in CutFields :
                  ~Includes(cut, <<"*", "*">> \o f[2] \o <<"*", "*", ":">>)
                    => papers[i][f[1]] = f[3]

\* C28 witness: a text of one complete record and a record cut after its
\* disease line was parsed into two papers, the second with the parser's
\* abstract.
TruncatedRecordParsed ==
  \E s \in Parsed :
    /\ Len(frames[s].res.value) = 2
    /\ \E i \in 1..2 :
         /\ frames[s].res.value[i].titleEn = RecordB.titleEn
         /\ frames[s].res.value[i].diseaseType = RecordB.diseaseType
         /\ frames[s].res.value[i].abstract = <<"ZanWuZhaiYao">>
         /\ frames[s].res.value[i].rawText \notin GrammarTexts

-----------------------------------------------------------------------------
(* Properties of the deduplicator                                          *)

\* two records denote one publication by their identifiers: the same PMID of
\* six or more digits, or no such PMID in either and the same normalised
\* title, which holds a letter or a digit
SamePublication(a, b) ==
  \/ /\ HasLongDigitRun(a.pmidDoi)
     /\ HasLongDigitRun(b.pmidDoi)
     /\ PmidOf(a.pmidDoi).v = PmidOf(b.pmidDoi).v
  \/ /\ ~HasLongDigitRun(a.pmidDoi)
     /\ ~HasLongDigitRun(b.pmidDoi)
     /\ NormalizedTitle(a.titleEn) = NormalizedTitle(b.titleEn)
     /\ NormalizedTitle(a.titleEn) # << >>

\* C29: a parsed record is missing from the result only if an earlier parsed
\* record denotes the same publication: the same PMID, or no PMID in either
\* and the same non-empty normalised title. A record keyed by a PMID and a
\* record keyed by its title are never merged, and records whose titles
\* normalise to the empty string are not merged.
MergedOnlySamePublication ==
  \A s \in Parsed :
    LET papers == frames[s].res.value
        raws   == RawPapersFrom(Sections(frames[s].text), 1, <<[now |-> 0, rnd |-> 0]>>)
    IN  \A j \in 1..Len(raws) :
          \/ \E i \in 1..Len(papers) : Content(papers[i]) = Content(raws[j])
          \/ \E i \in 1..(j - 1) : SamePublication(raws[i], raws[j])

-----------------------------------------------------------------------------
(* Properties of the search as a whole                                     *)

Ceil(n, d) == (n + d - 1) \div d

\* the requests a call has sent so far
Issued(r) == r.iss.search + r.iss.fetch + r.iss.enrich

\* the service call of search s has begun and has not ended
Running(s) == frames[s].fn = "fetchLiteratureUpdates" /\ ~Finished(frames[s])

\* the flag is set exactly while the call of a search runs
LoadingWhileRunning == state.isLoading <=> \E s \in Searches : Running(s)

\* a search sends at most one search request, one detail request per 50
\* identifiers found and one enrichment request per 10 records fetched
CallsBounded ==
  \A s \in Searches :
    frames[s].fn = "fetchLiteratureUpdates" =>
      Issued(frames[s]) <= 1 + Ceil(Len(frames[s].pmids), CHUNK_SIZE)
                             + Ceil(Len(frames[s].allData), BATCH_SIZE)

\* C30: when every request is answered or fails, every search that was
\* started ends with isLoading = false, whether it succeeds, fails or was
\* stopped, after at most 1 + ceil(n/50) + ceil(m/10) requests for n
\* identifiers and m raw records; isLoading is true exactly while the call
\* of a search runs.
SearchFinishes ==
  /\ [](LoadingWhileRunning /\ CallsBounded)
  /\ \A s \in Searches :
       (started = s) ~> (started = s /\ Finished(frames[s]) /\ ~state.isLoading)

\* C30 witness: a search that found 51 identifiers and fetched more than 10
\* records was stopped and has ended with isLoading = false, after one
\* search request, two detail requests and two enrichment requests.
StoppedSearchFinished ==
  \E s \in Searches :
    /\ aborted[s]
    /\ Finished(frames[s])
    /\ ~state.isLoading
    /\ Len(frames[s].pmids) = CHUNK_SIZE + 1
    /\ Len(frames[s].allData) > BATCH_SIZE
    /\ frames[s].iss = [search |-> 1, fetch |-> 2, enrich |-> 2]

====
